---- MODULE Spec2Model ----
(***************************************************************************)
(* BT.656 capture pipeline: the capture queue of bt656_interface.cpp       *)
(* (producer ISR / polling producer, consumer drain) and the byte-level    *)
(* protocol decoder of bt656_decoder.cpp.                                  *)
(***************************************************************************)
EXTENDS Integers, Sequences, FiniteSets, TLC

\* ------------------------------ bounds ------------------------------------
\* largest buffer_size tried for the capture queue
MaxCap == 2
\* number of capture events (ISR invocations / polled edges) in one run
MaxSamples == 4
\* largest max_count passed to bt656_interface_read_data
MaxCount == 2

\* ------------------------------ constants ---------------------------------
\* uint16_t line_count and pixel_count wrap at 2^16; the uint32_t statistics
\* counters stay far below 2^32 within the bounds and are plain naturals
U16 == 65536

\* byte values seen on the parallel bus by the capture stage
SampleBytes == {0, 255}

\* content of a malloc'ed cell that was never written (never a bus value)
Uninit == -1

Min(a, b) == IF a < b THEN a ELSE b

Prefix(s, t) == Len(s) <= Len(t) /\ SubSeq(t, 1, Len(s)) = s

VARIABLES
    interface,      \* bt656_interface_t: config, stats, queue, interrupt_enabled
    g_interface,    \* the global ISR pointer: TRUE when it points at interface
    last_pclk_state,\* static local of bt656_interface_poll_data
    sampled,        \* history: every byte offered to add_to_buffer_optimized
    accepted,       \* history: the bytes add_to_buffer_optimized stored
    drained,        \* history: the bytes bt656_interface_read_data returned
    push_ret,       \* return value of the last add_to_buffer_optimized
    rd,             \* last bt656_interface_read_data call: request and result
    first_drain,    \* the first read_data call of the run (or NoDrain)
    avail_ret,      \* last return value of bt656_interface_get_available_data
    pc,             \* consumer position (statement-level specification)
    count,          \* local 'count' of read_data
    max_count,      \* argument of the read_data call in progress
    buffer          \* caller-supplied output buffer of the call in progress

qvars == <<interface, g_interface, last_pclk_state, sampled, accepted, drained,
           push_ret, rd, first_drain, avail_ret, pc, count, max_count, buffer>>

NoDrain == [at |-> -1, req |-> 0, got |-> <<>>]

\* --------------------------- capture queue --------------------------------

\* variant: a byte rejected by the full queue is dropped without being counted
add_to_buffer_uncounted(i, data) ==
    IF i.buffer_full
    THEN [ifc |-> i, ret |-> FALSE]
    ELSE LET h == (i.buffer_head + 1) % i.config.buffer_size
         IN [ifc |-> [i EXCEPT !.data_buffer[i.buffer_head] = data,
                               !.buffer_head = h,
                               !.buffer_full = IF h = i.buffer_tail THEN TRUE ELSE @],
             ret |-> TRUE]

\* variant: the full flag is never raised when the write cursor catches up
add_to_buffer_noflag(i, data) ==
    IF i.buffer_full
    THEN [ifc |-> [i EXCEPT !.stats.buffer_overflows = @ + 1],
          ret |-> FALSE]
    ELSE LET h == (i.buffer_head + 1) % i.config.buffer_size
         IN [ifc |-> [i EXCEPT !.data_buffer[i.buffer_head] = data,
                               !.buffer_head = h],
             ret |-> TRUE]

\* add_to_buffer_optimized: the interface after the call and the result
add_to_buffer_optimized(i, data) ==
    IF i.buffer_full
    THEN [ifc |-> [i EXCEPT !.stats.buffer_overflows = @ + 1],
          ret |-> FALSE]
    ELSE LET h == (i.buffer_head + 1) % i.config.buffer_size
         IN [ifc |-> [i EXCEPT !.data_buffer[i.buffer_head] = data,
                               !.buffer_head = h,
                               !.buffer_full = IF h = i.buffer_tail THEN TRUE ELSE @],
             ret |-> TRUE]

\* the body of bt656_pclk_isr_optimized after the bus read
bt656_pclk_isr_optimized(g, i, data) ==
    IF ~g \/ ~i.interrupt_enabled
    THEN [ifc |-> i, pushed |-> FALSE, ret |-> FALSE]
    ELSE LET r == add_to_buffer_optimized(i, data)
             j == IF r.ret
                  THEN [r.ifc EXCEPT !.stats.bytes_captured = @ + 1]
                  ELSE r.ifc
         IN [ifc |-> [j EXCEPT !.stats.interrupts_handled = @ + 1],
             pushed |-> TRUE, ret |-> r.ret]

\* loop condition of bt656_interface_read_data
read_more(i, cnt, max) == cnt < max /\ i.buffer_tail # i.buffer_head

\* variant: the byte is fetched one cell past the read cursor
read_copy_past_tail(i, out) ==
    Append(out, i.data_buffer[(i.buffer_tail + 1) % i.config.buffer_size])

\* the three statements of the loop body, one at a time
read_copy(i, out) == Append(out, i.data_buffer[i.buffer_tail])
read_advance(i) == [i EXCEPT !.buffer_tail = (@ + 1) % i.config.buffer_size]
read_clear(i) == [i EXCEPT !.buffer_full = FALSE]

\* the whole loop of bt656_interface_read_data
RECURSIVE read_loop(_, _, _)
read_loop(i, out, max) ==
    IF read_more(i, Len(out), max)
    THEN read_loop(read_clear(read_advance(i)), read_copy(i, out), max)
    ELSE [ifc |-> i, out |-> out]

\* bt656_interface_read_data: max_count = 0 returns at once
bt656_interface_read_data(i, max) ==
    IF max = 0 THEN [ifc |-> i, out |-> <<>>] ELSE read_loop(i, <<>>, max)

\* variant: the count is taken from the cursors alone, the full flag ignored
get_available_data_noflag(i) ==
    IF i.buffer_head >= i.buffer_tail
    THEN i.buffer_head - i.buffer_tail
    ELSE i.config.buffer_size - i.buffer_tail + i.buffer_head

\* bt656_interface_get_available_data
bt656_interface_get_available_data(i) ==
    IF i.buffer_full THEN i.config.buffer_size
    ELSE IF i.buffer_head >= i.buffer_tail
         THEN i.buffer_head - i.buffer_tail
         ELSE i.config.buffer_size - i.buffer_tail + i.buffer_head

\* the queue content in push order, read off the cursors and the full flag
RECURSIVE Walk(_, _, _)
Walk(i, from, n) ==
    IF n = 0 THEN <<>>
    ELSE <<i.data_buffer[from]>> \o Walk(i, (from + 1) % i.config.buffer_size, n - 1)

Stored(i) ==
    IF i.buffer_full THEN i.config.buffer_size
    ELSE (i.buffer_head - i.buffer_tail + i.config.buffer_size) % i.config.buffer_size

QueueContents(i) == Walk(i, i.buffer_tail, Stored(i))

\* variant: the consumer never masks interrupts
InterruptsNeverMasked(p) == TRUE

\* interrupts are masked between portDISABLE_INTERRUPTS and portENABLE_INTERRUPTS
InterruptsEnabled(p) == p \notin {"rd_test", "rd_copy", "rd_adv", "rd_clear", "av_crit"}

\* ------------------------------- Init -------------------------------------
\* the interface after a successful bt656_interface_init
bt656_interface_init(size, enable) ==
    [config |-> [buffer_size |-> size, enable_interrupts |-> enable],
     stats |-> [interrupts_handled |-> 0, bytes_captured |-> 0, buffer_overflows |-> 0],
     data_buffer |-> [k \in 0 .. size - 1 |-> Uninit],
     buffer_head |-> 0,
     buffer_tail |-> 0,
     buffer_full |-> FALSE,
     interrupt_enabled |-> enable]

QInit ==
    /\ \E size \in 1 .. MaxCap, enable \in BOOLEAN :
           interface = bt656_interface_init(size, enable)
    /\ g_interface = TRUE
    /\ last_pclk_state = FALSE
    /\ sampled = <<>>
    /\ accepted = <<>>
    /\ drained = <<>>
    /\ push_ret = FALSE
    /\ rd = [req |-> 0, ret |-> 0]
    /\ first_drain = NoDrain
    /\ avail_ret = 0
    /\ pc = "idle"
    /\ count = 0
    /\ max_count = 0
    /\ buffer = <<>>

locals == <<pc, count, max_count, buffer>>
consumer == <<drained, rd, first_drain, avail_ret>>

\* ------------------------------ producer ----------------------------------
\* one PCLK rising edge served by bt656_pclk_isr_optimized
Isr ==
    /\ interface.interrupt_enabled
    /\ InterruptsEnabled(pc)
    /\ Len(sampled) < MaxSamples
    /\ \E data \in SampleBytes :
         LET r == bt656_pclk_isr_optimized(g_interface, interface, data)
         IN /\ interface' = r.ifc
            /\ sampled' = IF r.pushed THEN Append(sampled, data) ELSE sampled
            /\ accepted' = IF r.ret THEN Append(accepted, data) ELSE accepted
            /\ push_ret' = r.ret
    /\ UNCHANGED <<g_interface, last_pclk_state, consumer, locals>>

\* variant: bt656_interface_poll_data captures on the level, not on the edge
PollDataOnLevel ==
    /\ pc = "idle"
    /\ Len(sampled) < MaxSamples
    /\ \E pclk_high \in BOOLEAN, data \in SampleBytes :
         IF interface.interrupt_enabled
         THEN UNCHANGED <<interface, last_pclk_state, sampled, accepted, push_ret>>
         ELSE /\ last_pclk_state' = pclk_high
              /\ IF pclk_high
                 THEN LET r == add_to_buffer_optimized(interface, data)
                          j == IF r.ret
                               THEN [r.ifc EXCEPT !.stats.bytes_captured = @ + 1]
                               ELSE r.ifc
                      IN /\ interface' = [j EXCEPT !.stats.interrupts_handled = @ + 1]
                         /\ sampled' = Append(sampled, data)
                         /\ accepted' = IF r.ret THEN Append(accepted, data) ELSE accepted
                         /\ push_ret' = r.ret
                 ELSE UNCHANGED <<interface, sampled, accepted, push_ret>>
    /\ UNCHANGED <<g_interface, consumer, locals>>

\* one call of bt656_interface_poll_data from the main loop
PollData ==
    /\ pc = "idle"
    /\ Len(sampled) < MaxSamples
    /\ \E pclk_high \in BOOLEAN, data \in SampleBytes :
         IF interface.interrupt_enabled
         THEN UNCHANGED <<interface, last_pclk_state, sampled, accepted, push_ret>>
         ELSE /\ last_pclk_state' = pclk_high
              /\ IF pclk_high /\ ~last_pclk_state
                 THEN LET r == add_to_buffer_optimized(interface, data)
                          j == IF r.ret
                               THEN [r.ifc EXCEPT !.stats.bytes_captured = @ + 1]
                               ELSE r.ifc
                      IN /\ interface' = [j EXCEPT !.stats.interrupts_handled = @ + 1]
                         /\ sampled' = Append(sampled, data)
                         /\ accepted' = IF r.ret THEN Append(accepted, data) ELSE accepted
                         /\ push_ret' = r.ret
                 ELSE UNCHANGED <<interface, sampled, accepted, push_ret>>
    /\ UNCHANGED <<g_interface, consumer, locals>>

\* ------------------------- consumer, whole calls --------------------------
NoteDrain(m, out) ==
    IF first_drain = NoDrain /\ m >= 1
    THEN [at |-> Len(sampled), req |-> m, got |-> out]
    ELSE first_drain

ReadData(m) ==
    /\ pc = "idle"
    /\ LET r == bt656_interface_read_data(interface, m)
       IN /\ interface' = r.ifc
          /\ drained' = drained \o r.out
          /\ rd' = [req |-> m, ret |-> Len(r.out)]
          /\ first_drain' = NoteDrain(m, r.out)
    /\ UNCHANGED <<g_interface, last_pclk_state, sampled, accepted, push_ret,
                   avail_ret, locals>>

GetAvailable ==
    /\ pc = "idle"
    /\ avail_ret' = bt656_interface_get_available_data(interface)
    /\ UNCHANGED <<interface, g_interface, last_pclk_state, sampled, accepted,
                   push_ret, drained, rd, first_drain, locals>>


\* ============================ protocol decoder =============================

\* BT656_TR_MARKER_FF, BT656_TR_MARKER_00 and the sync bit positions
BT656_TR_MARKER_FF == 255
BT656_TR_MARKER_00 == 0
BT656_FIELD_BIT == 6
BT656_VSYNC_BIT == 5
BT656_HSYNC_BIT == 4
BT656_SAV_BIT == 3

\* nullptr for a callback pointer
NoHandler == 0

\* (b & (1 << k)) != 0
Bit(b, k) == (b \div (2 ^ k)) % 2 = 1

\* C conversion of a quotient to int: truncation toward zero
TruncDiv(a, b) == IF a >= 0 THEN a \div b ELSE -((-a) \div b)

Clamp(v) == IF v < 0 THEN 0 ELSE IF v > 255 THEN 255 ELSE v

\* bt656_ycbcr_to_rgb, the coefficients scaled by 1000 (the code computes in
\* double and converts to int, which truncates toward zero)
bt656_ycbcr_to_rgb(ycbcr) ==
    LET y == ycbcr.y - 16
        cb == ycbcr.cb - 128
        cr == ycbcr.cr - 128
        r == TruncDiv(1000 * y + 1402 * cr, 1000)
        g == TruncDiv(1000 * y - 344 * cb - 714 * cr, 1000)
        b == TruncDiv(1000 * y + 1772 * cb, 1000)
    IN [r |-> Clamp(r), g |-> Clamp(g), b |-> Clamp(b)]

\* variant: after FF the detector advances on any byte, not only on 00
detect_timing_reference_loose(d, data) ==
    CASE d.state = "IDLE" ->
           [d |-> IF data = BT656_TR_MARKER_FF THEN [d EXCEPT !.state = "FF"] ELSE d,
            found |-> FALSE]
      [] d.state = "FF" ->
           [d |-> [d EXCEPT !.state = "FF00"], found |-> FALSE]
      [] d.state = "FF00" ->
           IF data = BT656_TR_MARKER_00
           THEN [d |-> [d EXCEPT !.state = "FF0000"], found |-> TRUE]
           ELSE [d |-> [d EXCEPT !.state = "IDLE"], found |-> FALSE]
      [] d.state = "FF0000" ->
           [d |-> [d EXCEPT !.state = "CONTROL_BYTE"], found |-> FALSE]
      [] OTHER ->
           [d |-> [d EXCEPT !.state = "IDLE"], found |-> FALSE]

\* variant: a broken marker is recorded in timing_errors
detect_timing_reference_recording(d, data) ==
    CASE d.state = "IDLE" ->
           [d |-> IF data = BT656_TR_MARKER_FF THEN [d EXCEPT !.state = "FF"] ELSE d,
            found |-> FALSE]
      [] d.state = "FF" ->
           [d |-> IF data = BT656_TR_MARKER_00
                  THEN [d EXCEPT !.state = "FF00"]
                  ELSE [d EXCEPT !.state = "IDLE", !.stats.timing_errors = @ + 1],
            found |-> FALSE]
      [] d.state = "FF00" ->
           IF data = BT656_TR_MARKER_00
           THEN [d |-> [d EXCEPT !.state = "FF0000"], found |-> TRUE]
           ELSE [d |-> [d EXCEPT !.state = "IDLE", !.stats.timing_errors = @ + 1],
                 found |-> FALSE]
      [] d.state = "FF0000" ->
           [d |-> [d EXCEPT !.state = "CONTROL_BYTE"], found |-> FALSE]
      [] OTHER ->
           [d |-> [d EXCEPT !.state = "IDLE"], found |-> FALSE]

\* detect_timing_reference: the decoder after the call and the result
detect_timing_reference(d, data) ==
    CASE d.state = "IDLE" ->
           [d |-> IF data = BT656_TR_MARKER_FF THEN [d EXCEPT !.state = "FF"] ELSE d,
            found |-> FALSE]
      [] d.state = "FF" ->
           [d |-> IF data = BT656_TR_MARKER_00
                  THEN [d EXCEPT !.state = "FF00"]
                  ELSE [d EXCEPT !.state = "IDLE"],
            found |-> FALSE]
      [] d.state = "FF00" ->
           IF data = BT656_TR_MARKER_00
           THEN [d |-> [d EXCEPT !.state = "FF0000"], found |-> TRUE]
           ELSE [d |-> [d EXCEPT !.state = "IDLE"], found |-> FALSE]
      [] d.state = "FF0000" ->
           [d |-> [d EXCEPT !.state = "CONTROL_BYTE"], found |-> FALSE]
      [] OTHER ->
           [d |-> [d EXCEPT !.state = "IDLE"], found |-> FALSE]

\* extract_sync_signals
extract_sync_signals(control_byte) ==
    [field |-> Bit(control_byte, BT656_FIELD_BIT),
     vsync |-> Bit(control_byte, BT656_VSYNC_BIT),
     hsync |-> Bit(control_byte, BT656_HSYNC_BIT),
     sav |-> Bit(control_byte, BT656_SAV_BIT),
     eav |-> ~Bit(control_byte, BT656_SAV_BIT)]

\* process_video_data with the Y2 byte not stored: the sample keeps the first luma
process_video_data_first_luma(d, data) ==
    IF ~d.in_active_video THEN [d |-> d, ev |-> <<>>]
    ELSE CASE d.phase = "Y1" ->
                [d |-> [d EXCEPT !.current_pixel.y = data, !.phase = "CB"], ev |-> <<>>]
           [] d.phase = "CB" ->
                [d |-> [d EXCEPT !.current_pixel.cb = data, !.phase = "Y2"], ev |-> <<>>]
           [] d.phase = "Y2" ->
                [d |-> [d EXCEPT !.phase = "CR"], ev |-> <<>>]
           [] d.phase = "CR" ->
                LET px == [d.current_pixel EXCEPT !.cr = data]
                    rgbOn == d.config.enable_rgb_conversion /\ d.rgb_callback # NoHandler
                    e1 == IF d.pixel_callback # NoHandler
                          THEN <<[kind |-> "pixel", h |-> d.pixel_callback, px |-> px,
                                  x |-> d.pixel_count, y |-> d.line_count]>>
                          ELSE <<>>
                    e2 == IF rgbOn
                          THEN <<[kind |-> "rgb", h |-> d.rgb_callback,
                                  px |-> bt656_ycbcr_to_rgb(px),
                                  x |-> d.pixel_count, y |-> d.line_count]>>
                          ELSE <<>>
                IN [d |-> [d EXCEPT !.current_pixel = px,
                                    !.current_rgb = IF rgbOn THEN bt656_ycbcr_to_rgb(px) ELSE @,
                                    !.stats.pixels_received = @ + 1,
                                    !.pixel_count = (@ + 1) % U16,
                                    !.phase = "Y1"],
                    ev |-> e1 \o e2]

\* process_video_data dispatching the RGB sample whenever an RGB callback is
\* registered, whatever enable_rgb_conversion says
process_video_data_always_rgb(d, data) ==
    IF ~d.in_active_video THEN [d |-> d, ev |-> <<>>]
    ELSE CASE d.phase = "Y1" ->
                [d |-> [d EXCEPT !.current_pixel.y = data, !.phase = "CB"], ev |-> <<>>]
           [] d.phase = "CB" ->
                [d |-> [d EXCEPT !.current_pixel.cb = data, !.phase = "Y2"], ev |-> <<>>]
           [] d.phase = "Y2" ->
                [d |-> [d EXCEPT !.current_pixel.y = data, !.phase = "CR"], ev |-> <<>>]
           [] d.phase = "CR" ->
                LET px == [d.current_pixel EXCEPT !.cr = data]
                    rgbOn == d.rgb_callback # NoHandler
                    e1 == IF d.pixel_callback # NoHandler
                          THEN <<[kind |-> "pixel", h |-> d.pixel_callback, px |-> px,
                                  x |-> d.pixel_count, y |-> d.line_count]>>
                          ELSE <<>>
                    e2 == IF rgbOn
                          THEN <<[kind |-> "rgb", h |-> d.rgb_callback,
                                  px |-> bt656_ycbcr_to_rgb(px),
                                  x |-> d.pixel_count, y |-> d.line_count]>>
                          ELSE <<>>
                IN [d |-> [d EXCEPT !.current_pixel = px,
                                    !.current_rgb = IF rgbOn THEN bt656_ycbcr_to_rgb(px) ELSE @,
                                    !.stats.pixels_received = @ + 1,
                                    !.pixel_count = (@ + 1) % U16,
                                    !.phase = "Y1"],
                    ev |-> e1 \o e2]

\* process_video_data: the decoder after the call and the callbacks invoked
process_video_data(d, data) ==
    IF ~d.in_active_video THEN [d |-> d, ev |-> <<>>]
    ELSE CASE d.phase = "Y1" ->
                [d |-> [d EXCEPT !.current_pixel.y = data, !.phase = "CB"], ev |-> <<>>]
           [] d.phase = "CB" ->
                [d |-> [d EXCEPT !.current_pixel.cb = data, !.phase = "Y2"], ev |-> <<>>]
           [] d.phase = "Y2" ->
                [d |-> [d EXCEPT !.current_pixel.y = data, !.phase = "CR"], ev |-> <<>>]
           [] d.phase = "CR" ->
                LET px == [d.current_pixel EXCEPT !.cr = data]
                    rgbOn == d.config.enable_rgb_conversion /\ d.rgb_callback # NoHandler
                    e1 == IF d.pixel_callback # NoHandler
                          THEN <<[kind |-> "pixel", h |-> d.pixel_callback, px |-> px,
                                  x |-> d.pixel_count, y |-> d.line_count]>>
                          ELSE <<>>
                    e2 == IF rgbOn
                          THEN <<[kind |-> "rgb", h |-> d.rgb_callback,
                                  px |-> bt656_ycbcr_to_rgb(px),
                                  x |-> d.pixel_count, y |-> d.line_count]>>
                          ELSE <<>>
                IN [d |-> [d EXCEPT !.current_pixel = px,
                                    !.current_rgb = IF rgbOn THEN bt656_ycbcr_to_rgb(px) ELSE @,
                                    !.stats.pixels_received = @ + 1,
                                    !.pixel_count = (@ + 1) % U16,
                                    !.phase = "Y1"],
                    ev |-> e1 \o e2]

\* the vertical-sync block without the frames_received increment
handle_vsync_uncounted(d, sync) ==
    IF sync.vsync /\ ~d.sync.vsync
    THEN [d |-> [d EXCEPT !.frame_started = TRUE,
                          !.line_count = 0,
                          !.pixel_count = 0],
          ev |-> IF d.frame_callback # NoHandler
                 THEN <<[kind |-> "frame", h |-> d.frame_callback]>> ELSE <<>>]
    ELSE [d |-> d, ev |-> <<>>]

\* the vertical-sync block triggered by the level of vsync, not by its edge
handle_vsync_level(d, sync) ==
    IF sync.vsync
    THEN [d |-> [d EXCEPT !.frame_started = TRUE,
                          !.line_count = 0,
                          !.pixel_count = 0,
                          !.stats.frames_received = @ + 1],
          ev |-> IF d.frame_callback # NoHandler
                 THEN <<[kind |-> "frame", h |-> d.frame_callback]>> ELSE <<>>]
    ELSE [d |-> d, ev |-> <<>>]

\* the vertical-sync block without the reset of line_count
handle_vsync_keeps_lines(d, sync) ==
    IF sync.vsync /\ ~d.sync.vsync
    THEN [d |-> [d EXCEPT !.frame_started = TRUE,
                          !.pixel_count = 0,
                          !.stats.frames_received = @ + 1],
          ev |-> IF d.frame_callback # NoHandler
                 THEN <<[kind |-> "frame", h |-> d.frame_callback]>> ELSE <<>>]
    ELSE [d |-> d, ev |-> <<>>]

\* handle_sync_signals, first block: vertical sync (the micros() stamp
\* last_frame_time is not part of the state)
handle_vsync(d, sync) ==
    IF sync.vsync /\ ~d.sync.vsync
    THEN [d |-> [d EXCEPT !.frame_started = TRUE,
                          !.line_count = 0,
                          !.pixel_count = 0,
                          !.stats.frames_received = @ + 1],
          ev |-> IF d.frame_callback # NoHandler
                 THEN <<[kind |-> "frame", h |-> d.frame_callback]>> ELSE <<>>]
    ELSE [d |-> d, ev |-> <<>>]

\* the horizontal-sync block with the callback invoked after the increment
handle_hsync_post(d, sync) ==
    IF sync.hsync /\ ~d.sync.hsync
    THEN [d |-> [d EXCEPT !.line_started = TRUE,
                          !.pixel_count = 0,
                          !.stats.lines_received = @ + 1,
                          !.line_count = (@ + 1) % U16],
          ev |-> IF d.line_callback # NoHandler
                 THEN <<[kind |-> "line", h |-> d.line_callback,
                         line |-> (d.line_count + 1) % U16]>>
                 ELSE <<>>]
    ELSE [d |-> d, ev |-> <<>>]

\* handle_sync_signals, second block: horizontal sync
handle_hsync(d, sync) ==
    IF sync.hsync /\ ~d.sync.hsync
    THEN [d |-> [d EXCEPT !.line_started = TRUE,
                          !.pixel_count = 0,
                          !.stats.lines_received = @ + 1,
                          !.line_count = (@ + 1) % U16],
          ev |-> IF d.line_callback # NoHandler
                 THEN <<[kind |-> "line", h |-> d.line_callback, line |-> d.line_count]>>
                 ELSE <<>>]
    ELSE [d |-> d, ev |-> <<>>]

\* the third block without its else branch: active video is never left
handle_sav_sticky(d, sync) ==
    IF sync.sav
    THEN [d EXCEPT !.in_active_video = TRUE, !.phase = "Y1", !.pixel_count = 0,
                   !.sync = sync]
    ELSE [d EXCEPT !.sync = sync]

\* the third block without the phase reset: a region starts at the phase the
\* previous one was cut off at
handle_sav_keeps_phase(d, sync) ==
    IF sync.sav
    THEN [d EXCEPT !.in_active_video = TRUE, !.pixel_count = 0, !.sync = sync]
    ELSE [d EXCEPT !.in_active_video = FALSE, !.sync = sync]

\* handle_sync_signals, third block and the store of the new flags
handle_sav(d, sync) ==
    IF sync.sav
    THEN [d EXCEPT !.in_active_video = TRUE, !.phase = "Y1", !.pixel_count = 0,
                   !.sync = sync]
    ELSE [d EXCEPT !.in_active_video = FALSE, !.sync = sync]

\* handle_sync_signals with the horizontal-sync block ahead of the vertical one
handle_sync_signals_hsync_first(d, sync) ==
    LET h == handle_hsync(d, sync)
        v == handle_vsync(h.d, sync)
    IN [d |-> handle_sav(v.d, sync), ev |-> h.ev \o v.ev]

\* handle_sync_signals
handle_sync_signals(d, sync) ==
    LET v == handle_vsync(d, sync)
        h == handle_hsync(v.d, sync)
    IN [d |-> handle_sav(h.d, sync), ev |-> v.ev \o h.ev]

\* bt656_decoder_process_byte counting a byte outside active video as a data error
bt656_decoder_process_byte_counting(d, data) ==
    LET t == detect_timing_reference(d, data)
    IN IF t.found
       THEN [d |-> t.d, ev |-> <<>>, ctl |-> FALSE, found |-> TRUE]
       ELSE IF t.d.state = "CONTROL_BYTE"
            THEN LET r == handle_sync_signals(t.d, extract_sync_signals(data))
                 IN [d |-> [r.d EXCEPT !.state = "IDLE"], ev |-> r.ev,
                     ctl |-> TRUE, found |-> FALSE]
            ELSE IF t.d.in_active_video
                 THEN LET r == process_video_data(t.d, data)
                      IN [d |-> r.d, ev |-> r.ev, ctl |-> FALSE, found |-> FALSE]
                 ELSE [d |-> [t.d EXCEPT !.stats.data_errors = @ + 1], ev |-> <<>>,
                       ctl |-> FALSE, found |-> FALSE]

\* variant: the detector is left in CONTROL_BYTE after the control byte
bt656_decoder_process_byte_stays_control(d, data) ==
    LET t == detect_timing_reference(d, data)
    IN IF t.found
       THEN [d |-> t.d, ev |-> <<>>, ctl |-> FALSE, found |-> TRUE]
       ELSE IF t.d.state = "CONTROL_BYTE"
            THEN LET r == handle_sync_signals(t.d, extract_sync_signals(data))
                 IN [d |-> r.d, ev |-> r.ev, ctl |-> TRUE, found |-> FALSE]
            ELSE IF t.d.in_active_video
                 THEN LET r == process_video_data(t.d, data)
                      IN [d |-> r.d, ev |-> r.ev, ctl |-> FALSE, found |-> FALSE]
                 ELSE [d |-> t.d, ev |-> <<>>, ctl |-> FALSE, found |-> FALSE]

\* bt656_decoder_process_byte: ctl tells whether the byte was handled as a
\* control byte, found whether it completed a marker
bt656_decoder_process_byte(d, data) ==
    LET t == detect_timing_reference(d, data)
    IN IF t.found
       THEN [d |-> t.d, ev |-> <<>>, ctl |-> FALSE, found |-> TRUE]
       ELSE IF t.d.state = "CONTROL_BYTE"
            THEN LET r == handle_sync_signals(t.d, extract_sync_signals(data))
                 IN [d |-> [r.d EXCEPT !.state = "IDLE"], ev |-> r.ev,
                     ctl |-> TRUE, found |-> FALSE]
            ELSE IF t.d.in_active_video
                 THEN LET r == process_video_data(t.d, data)
                      IN [d |-> r.d, ev |-> r.ev, ctl |-> FALSE, found |-> FALSE]
                 ELSE [d |-> t.d, ev |-> <<>>, ctl |-> FALSE, found |-> FALSE]

ZeroStats ==
    [frames_received |-> 0, lines_received |-> 0, pixels_received |-> 0,
     timing_errors |-> 0, sync_errors |-> 0, data_errors |-> 0]

ZeroSync == [field |-> FALSE, vsync |-> FALSE, hsync |-> FALSE, sav |-> FALSE, eav |-> FALSE]

\* bt656_decoder_init with a configuration whose enable_rgb_conversion is rgb
bt656_decoder_init(rgb) ==
    [state |-> "IDLE", phase |-> "Y1", sync |-> ZeroSync,
     current_pixel |-> [y |-> 0, cb |-> 0, cr |-> 0],
     current_rgb |-> [r |-> 0, g |-> 0, b |-> 0],
     line_count |-> 0, pixel_count |-> 0,
     in_active_video |-> FALSE, frame_started |-> FALSE, line_started |-> FALSE,
     stats |-> ZeroStats,
     config |-> [enable_rgb_conversion |-> rgb],
     pixel_callback |-> NoHandler, rgb_callback |-> NoHandler,
     frame_callback |-> NoHandler, line_callback |-> NoHandler]

\* bt656_decoder_reset clearing the statistics as well
bt656_decoder_reset_with_stats(d) ==
    [d EXCEPT !.state = "IDLE", !.phase = "Y1", !.in_active_video = FALSE,
              !.frame_started = FALSE, !.line_started = FALSE,
              !.line_count = 0, !.pixel_count = 0,
              !.sync = ZeroSync,
              !.stats = ZeroStats,
              !.current_pixel = [y |-> 0, cb |-> 0, cr |-> 0],
              !.current_rgb = [r |-> 0, g |-> 0, b |-> 0]]

\* bt656_decoder_reset
bt656_decoder_reset(d) ==
    [d EXCEPT !.state = "IDLE", !.phase = "Y1", !.in_active_video = FALSE,
              !.frame_started = FALSE, !.line_started = FALSE,
              !.line_count = 0, !.pixel_count = 0,
              !.sync = ZeroSync,
              !.current_pixel = [y |-> 0, cb |-> 0, cr |-> 0],
              !.current_rgb = [r |-> 0, g |-> 0, b |-> 0]]

\* a setter that keeps a handler already registered (set once)
bt656_decoder_set_frame_callback_once(d, callback) ==
    IF d.frame_callback = NoHandler THEN [d EXCEPT !.frame_callback = callback] ELSE d

\* the four callback setters
bt656_decoder_set_pixel_callback(d, callback) == [d EXCEPT !.pixel_callback = callback]
bt656_decoder_set_rgb_callback(d, callback) == [d EXCEPT !.rgb_callback = callback]
bt656_decoder_set_frame_callback(d, callback) == [d EXCEPT !.frame_callback = callback]
bt656_decoder_set_line_callback(d, callback) == [d EXCEPT !.line_callback = callback]

\* bt656_decoder_set_config; a null configuration changes nothing
NoConfig == [null |-> TRUE]
bt656_decoder_set_config(d, config) ==
    IF config = NoConfig THEN d ELSE [d EXCEPT !.config = config]

\* bt656_decoder_reset_stats
bt656_decoder_reset_stats(d) == [d EXCEPT !.stats = ZeroStats]

\* ------------------------ consumer, statement by statement -----------------
\* entry of bt656_interface_read_data up to portDISABLE_INTERRUPTS
RdCall(m) ==
    /\ pc = "idle"
    /\ IF m = 0
       THEN /\ rd' = [req |-> 0, ret |-> 0]
            /\ UNCHANGED locals
       ELSE /\ pc' = "rd_test"
            /\ count' = 0
            /\ max_count' = m
            /\ buffer' = <<>>
            /\ UNCHANGED rd
    /\ UNCHANGED <<interface, g_interface, last_pclk_state, sampled, accepted,
                   push_ret, drained, first_drain, avail_ret>>

\* the while condition; leaving the loop runs portENABLE_INTERRUPTS
RdTest ==
    /\ pc = "rd_test"
    /\ pc' = IF read_more(interface, count, max_count) THEN "rd_copy" ELSE "rd_ret"
    /\ UNCHANGED <<interface, g_interface, last_pclk_state, sampled, accepted,
                   push_ret, consumer, count, max_count, buffer>>

RdCopy ==
    /\ pc = "rd_copy"
    /\ buffer' = read_copy(interface, buffer)
    /\ pc' = "rd_adv"
    /\ UNCHANGED <<interface, g_interface, last_pclk_state, sampled, accepted,
                   push_ret, consumer, count, max_count>>

RdAdvance ==
    /\ pc = "rd_adv"
    /\ interface' = read_advance(interface)
    /\ pc' = "rd_clear"
    /\ UNCHANGED <<g_interface, last_pclk_state, sampled, accepted,
                   push_ret, consumer, count, max_count, buffer>>

RdClear ==
    /\ pc = "rd_clear"
    /\ interface' = read_clear(interface)
    /\ count' = count + 1
    /\ pc' = "rd_test"
    /\ UNCHANGED <<g_interface, last_pclk_state, sampled, accepted,
                   push_ret, consumer, max_count, buffer>>

RdReturn ==
    /\ pc = "rd_ret"
    /\ drained' = drained \o buffer
    /\ rd' = [req |-> max_count, ret |-> count]
    /\ first_drain' = NoteDrain(max_count, buffer)
    /\ pc' = "idle"
    /\ count' = 0
    /\ max_count' = 0
    /\ buffer' = <<>>
    /\ UNCHANGED <<interface, g_interface, last_pclk_state, sampled, accepted,
                   push_ret, avail_ret>>

\* bt656_interface_get_available_data: mask, compute, unmask
AvCall ==
    /\ pc = "idle"
    /\ pc' = "av_crit"
    /\ UNCHANGED <<interface, g_interface, last_pclk_state, sampled, accepted,
                   push_ret, consumer, count, max_count, buffer>>

AvReturn ==
    /\ pc = "av_crit"
    /\ avail_ret' = bt656_interface_get_available_data(interface)
    /\ pc' = "idle"
    /\ UNCHANGED <<interface, g_interface, last_pclk_state, sampled, accepted,
                   push_ret, drained, rd, first_drain, count, max_count, buffer>>

\* ------------------------------ decoder state ------------------------------
VARIABLES
    decoder,        \* bt656_decoder_t
    fed,            \* history: bytes given to process_byte since init or reset
    role,           \* history: what each byte of fed was taken for
    events,         \* history: callbacks invoked since init or reset
    base_stats,     \* history: decoder.stats at init or at the last reset
    nops            \* number of decoder operations so far

dvars == <<decoder, fed, role, events, base_stats, nops>>

vars == <<interface, g_interface, last_pclk_state, sampled, accepted, drained,
          push_ret, rd, first_drain, avail_ret, pc, count, max_count, buffer,
          decoder, fed, role, events, base_stats, nops>>

\* ------------------------------ more bounds --------------------------------
\* number of decoder operations (bytes and resets) in one run
MaxOps == 6

\* byte values fed to the decoder: marker bytes, a control byte carrying
\* vsync, hsync and sav, and a plain data byte
Bytes == {0, 255, 56, 1}

\* the decoder as set up before the stream starts: bt656_decoder_init, then
\* the four setters with the same handler (or none)
DecoderSetup(rgb, h) ==
    bt656_decoder_set_line_callback(
      bt656_decoder_set_frame_callback(
        bt656_decoder_set_rgb_callback(
          bt656_decoder_set_pixel_callback(bt656_decoder_init(rgb), h), h), h), h)

DHist ==
    /\ fed = <<>>
    /\ role = <<>>
    /\ events = <<>>
    /\ base_stats = ZeroStats
    /\ nops = 0

\* ----------------------------- decoder actions -----------------------------
ProcessByte ==
    /\ nops < MaxOps
    /\ \E data \in Bytes :
         LET r == bt656_decoder_process_byte(decoder, data)
         IN /\ decoder' = r.d
            /\ fed' = Append(fed, data)
            /\ role' = Append(role, IF r.ctl THEN "control"
                                    ELSE IF r.found THEN "marker" ELSE "other")
            /\ events' = events \o r.ev
    /\ nops' = nops + 1
    /\ UNCHANGED <<base_stats, qvars>>

Reset ==
    /\ nops < MaxOps
    /\ decoder' = bt656_decoder_reset(decoder)
    /\ fed' = <<>>
    /\ role' = <<>>
    /\ events' = <<>>
    /\ base_stats' = decoder.stats
    /\ nops' = nops + 1
    /\ UNCHANGED qvars

\* ----------------------------- specifications ------------------------------
\* the capture queue, every call atomic
Init ==
    /\ QInit
    /\ decoder = DecoderSetup(TRUE, 1)
    /\ DHist

Drain == \E m \in 1 .. MaxCount : ReadData(m)

Next ==
    \/ Isr /\ UNCHANGED dvars
    \/ PollData /\ UNCHANGED dvars
    \/ ReadData(0) /\ UNCHANGED dvars
    \/ Drain /\ UNCHANGED dvars
    \/ GetAvailable /\ UNCHANGED dvars

Spec == Init /\ [][Next]_vars

\* the same, with a consumer that keeps draining
FairSpec == Init /\ [][Next]_vars /\ WF_vars(Drain /\ UNCHANGED dvars)

\* the capture queue with the consumer preemptible between statements
IsrNext ==
    \/ Isr /\ UNCHANGED dvars
    \/ PollData /\ UNCHANGED dvars
    \/ (\E m \in 0 .. MaxCount : RdCall(m)) /\ UNCHANGED dvars
    \/ RdTest /\ UNCHANGED dvars
    \/ RdCopy /\ UNCHANGED dvars
    \/ RdAdvance /\ UNCHANGED dvars
    \/ RdClear /\ UNCHANGED dvars
    \/ RdReturn /\ UNCHANGED dvars
    \/ AvCall /\ UNCHANGED dvars
    \/ AvReturn /\ UNCHANGED dvars

IsrSpec == Init /\ [][IsrNext]_vars

\* the decoder fed byte by byte
DecoderInit ==
    /\ interface = bt656_interface_init(1, TRUE)
    /\ g_interface = TRUE
    /\ last_pclk_state = FALSE
    /\ sampled = <<>>
    /\ accepted = <<>>
    /\ drained = <<>>
    /\ push_ret = FALSE
    /\ rd = [req |-> 0, ret |-> 0]
    /\ first_drain = NoDrain
    /\ avail_ret = 0
    /\ pc = "idle"
    /\ count = 0
    /\ max_count = 0
    /\ buffer = <<>>
    /\ \E rgb \in BOOLEAN, h \in {NoHandler, 1} : decoder = DecoderSetup(rgb, h)
    /\ DHist

DecoderNext == ProcessByte \/ Reset

DecoderSpec == DecoderInit /\ [][DecoderNext]_vars

\* ================================ claims ===================================

\* the number of bytes accepted by a push and not yet returned by a drain
Queued == Len(accepted) - Len(drained)

\* a step that offered a byte to add_to_buffer_optimized
PushStep == Len(sampled') = Len(sampled) + 1

\* C1: at every point of every interleaving of pushes and drains,
\* bt656_interface_get_available_data returns the number of bytes accepted by
\* a push and not yet returned by a drain.
C1_AvailableIsQueued ==
    bt656_interface_get_available_data(interface) = Queued

\* a call has just reported one byte from a queue whose write cursor wrapped
\* behind the read cursor, after an earlier drain
C1_Witness ==
    /\ interface.buffer_head < interface.buffer_tail
    /\ Len(drained) >= 1
    /\ avail_ret = 1
    /\ Queued = 1

C3_OverflowThenDrain ==
    LET cap == interface.config.buffer_size
    IN /\ (Len(sampled) = cap + 1 /\ first_drain = NoDrain) =>
              /\ Stored(interface) = cap
              /\ interface.stats.buffer_overflows = 1
              /\ QueueContents(interface) = SubSeq(sampled, 1, cap)
       /\ (first_drain.at = cap + 1 /\ first_drain.req = cap) =>
              first_drain.got = SubSeq(sampled, 1, cap)

\* C4: once the queue is full, a consumer that keeps calling
\* bt656_interface_read_data with max_count >= 1 makes it non-full again
\* (the condition for any later push to be accepted).
C4_FullLeadsToNotFull ==
    interface.buffer_full ~> ~interface.buffer_full

\* C5: bt656_interface_read_data(max_count) returns min(max_count, queued
\* bytes), hands out the oldest queued bytes, advances the read cursor by that
\* amount modulo capacity, clears the full flag when a byte was removed and
\* returns 0 on the empty queue.
C5_ReadDataDrains ==
    [][\A m \in 0 .. MaxCount :
         ReadData(m) =>
           LET n == Min(m, Queued)
               size == interface.config.buffer_size
           IN /\ rd'.ret = n
              /\ drained' = drained \o SubSeq(QueueContents(interface), 1, n)
              /\ interface'.buffer_tail = (interface.buffer_tail + n) % size
              /\ (n >= 1 => ~interface'.buffer_full)
              /\ (Queued = 0 => rd'.ret = 0)]_vars

\* C6: a push onto the full queue adds one to buffer_overflows, returns false
\* and changes nothing else of the queue nor bytes_captured; a push onto a
\* non-full queue stores the byte at the write cursor, advances the cursor
\* modulo capacity, sets full iff the cursors are then equal and leaves
\* buffer_overflows alone.
C6_PushContract ==
    [][PushStep =>
         LET data == sampled'[Len(sampled')]
             size == interface.config.buffer_size
         IN IF interface.buffer_full
            THEN /\ interface'.stats.buffer_overflows = interface.stats.buffer_overflows + 1
                 /\ push_ret' = FALSE
                 /\ interface'.data_buffer = interface.data_buffer
                 /\ interface'.buffer_head = interface.buffer_head
                 /\ interface'.buffer_tail = interface.buffer_tail
                 /\ interface'.buffer_full = interface.buffer_full
                 /\ interface'.stats.bytes_captured = interface.stats.bytes_captured
            ELSE /\ interface'.data_buffer =
                        [interface.data_buffer EXCEPT ![interface.buffer_head] = data]
                 /\ interface'.buffer_head = (interface.buffer_head + 1) % size
                 /\ interface'.buffer_full =
                        (interface'.buffer_head = interface'.buffer_tail)
                 /\ interface'.stats.buffer_overflows = interface.stats.buffer_overflows]_vars

\* a push was rejected after the queue had been drained and refilled
C6_Witness ==
    /\ interface.stats.buffer_overflows >= 1
    /\ Len(drained) >= 1
    /\ push_ret = FALSE

\* C7: buffer_full only when the cursors are equal; the queue holds no byte
\* iff the cursors are equal and buffer_full is false; buffer_full becomes
\* true exactly on an accepted push that makes the cursors equal.
C7_FullFlag ==
    /\ [](/\ interface.buffer_full => interface.buffer_head = interface.buffer_tail
          /\ (Queued = 0) <=> (interface.buffer_head = interface.buffer_tail
                               /\ ~interface.buffer_full))
    /\ [][(~interface.buffer_full /\ interface'.buffer_full) <=>
          (/\ Len(accepted') = Len(accepted) + 1
           /\ interface'.buffer_head = interface'.buffer_tail)]_vars

\* the queue became full with both cursors away from 0
C7_Witness ==
    /\ interface.buffer_full
    /\ interface.buffer_head = 1
    /\ interface.buffer_tail = 1

\* C8: with the ISR preempting the consumer wherever interrupts are not
\* masked, every interleaving keeps the stream consistent: every sampled byte
\* is either accepted or counted in buffer_overflows, and the accepted bytes
\* are, in order, the drained ones, the ones of the drain in progress and the
\* queued ones.
C8_ConsistentUnderPreemption ==
    /\ Len(sampled) = Len(accepted) + interface.stats.buffer_overflows
    /\ Prefix(drained \o buffer, accepted)
    /\ pc \in {"idle", "rd_test", "rd_ret", "av_crit"} =>
           drained \o buffer \o QueueContents(interface) = accepted

\* the ISR refilled the queue while a drain that had removed a byte was
\* between unmasking interrupts and returning
C8_Witness ==
    /\ pc = "rd_ret"
    /\ Len(buffer) >= 1
    /\ interface.buffer_full

\* the bytes FF 00 00 occur consecutively in s
HasMarker(s) ==
    \E k \in 1 .. Len(s) - 2 :
        s[k] = BT656_TR_MARKER_FF /\ s[k + 1] = BT656_TR_MARKER_00
                                  /\ s[k + 2] = BT656_TR_MARKER_00

\* C9: as long as the bytes fed since init or reset do not contain FF 00 00,
\* no marker is detected and no byte is handled as a control byte: no frame
\* or line callback fires, frames_received and lines_received keep their
\* values and in_active_video stays false.
C9_NoMarkerNoControl ==
    ~HasMarker(fed) =>
        /\ \A k \in 1 .. Len(role) : role[k] = "other"
        /\ \A k \in 1 .. Len(events) : events[k].kind \notin {"frame", "line"}
        /\ decoder.stats.frames_received = base_stats.frames_received
        /\ decoder.stats.lines_received = base_stats.lines_received
        /\ ~decoder.in_active_video

\* a broken marker FF 00 followed by the byte that would be a control byte
\* with vsync, hsync and sav set was fed, and more bytes after it
C9_Witness ==
    /\ ~HasMarker(fed)
    /\ Len(fed) >= 4
    /\ \E k \in 1 .. Len(fed) - 2 :
           fed[k] = 255 /\ fed[k + 1] = 0 /\ fed[k + 2] = 56

\* C10: a byte is handed to handle_sync_signals exactly when the three bytes
\* before it are FF 00 00 and that FF was not itself taken as a control byte.
C10_MarkerThenControl ==
    \A k \in 1 .. Len(fed) :
        (role[k] = "control") <=>
            /\ k >= 4
            /\ fed[k - 3] = BT656_TR_MARKER_FF
            /\ fed[k - 2] = BT656_TR_MARKER_00
            /\ fed[k - 1] = BT656_TR_MARKER_00
            /\ role[k - 3] # "control"

\* ===================== the decoder fed a structured stream ==================

\* number of stream items (bytes and timing references) in one run
MaxChunks == 5

\* number of stream items in a run of timing references and sample groups
MaxGroupOps == 4

\* byte values fed one at a time or as the bytes of a sample group
StreamBytes == {0, 255, 1}

\* control bytes that follow FF 00 00: none, sav, hsync, vsync, vsync+hsync
\* and vsync+hsync+sav
CtlBytes == {0, 8, 16, 32, 48, 56}

RoleOf(r) == IF r.ctl THEN "control" ELSE IF r.found THEN "marker" ELSE "other"

\* bt656_decoder_process_byte called on each byte of bs in turn
RECURSIVE Feed(_, _)
Feed(d, bs) ==
    IF bs = <<>>
    THEN [d |-> d, ev |-> <<>>, roles |-> <<>>]
    ELSE LET r == bt656_decoder_process_byte(d, Head(bs))
             rest == Feed(r.d, Tail(bs))
         IN [d |-> rest.d, ev |-> r.ev \o rest.ev, roles |-> <<RoleOf(r)>> \o rest.roles]

FeedChunk(bs, max) ==
    /\ nops < max
    /\ LET r == Feed(decoder, bs)
       IN /\ decoder' = r.d
          /\ fed' = fed \o bs
          /\ role' = role \o r.roles
          /\ events' = events \o r.ev
    /\ nops' = nops + 1
    /\ UNCHANGED <<base_stats, qvars>>

\* the last byte fed was handled as a control byte with the sav bit set
AfterSav ==
    /\ Len(fed) >= 1
    /\ role[Len(role)] = "control"
    /\ Bit(fed[Len(fed)], BT656_SAV_BIT)

\* one byte
FeedByte == \E b \in StreamBytes : FeedChunk(<<b>>, MaxChunks)

\* a whole timing reference FF 00 00 <control>
Reference(c) == <<BT656_TR_MARKER_FF, BT656_TR_MARKER_00, BT656_TR_MARKER_00, c>>

FeedReference == \E c \in CtlBytes : FeedChunk(Reference(c), MaxChunks)

StreamNext == FeedByte \/ FeedReference

\* the decoder fed single bytes and whole timing references
StreamSpec == DecoderInit /\ [][StreamNext]_vars

\* a timing reference within a run of references and sample groups
GroupReference == \E c \in CtlBytes : FeedChunk(Reference(c), MaxGroupOps)

\* the four bytes Y1 Cb Y2 Cr that follow a start of active video
FeedGroup ==
    /\ AfterSav
    /\ \E y1 \in StreamBytes, cb \in StreamBytes, y2 \in StreamBytes, cr \in StreamBytes :
           FeedChunk(<<y1, cb, y2, cr>>, MaxGroupOps)

GroupNext == GroupReference \/ FeedGroup

\* the decoder fed whole timing references and, after an SAV, whole groups
GroupSpec == DecoderInit /\ [][GroupNext]_vars

\* ============================ claims, decoder ==============================

\* C11: from IDLE, the input FF FF FF 00 00 followed by one control byte gives
\* exactly one marker detection (on the second 00) and exactly one
\* control-byte handling (on the sixth byte).
C11_TripleFF ==
    (Len(fed) >= 6 /\ SubSeq(fed, 1, 5) = <<255, 255, 255, 0, 0>>) =>
        /\ Cardinality({k \in 1 .. 6 : role[k] = "marker"}) = 1
        /\ Cardinality({k \in 1 .. 6 : role[k] = "control"}) = 1
        /\ role[5] = "marker"
        /\ role[6] = "control"

\* FF FF FF 00 00 38 was fed to the fresh decoder and the control byte opened
\* an active-video region
C11_Witness ==
    /\ fed = <<255, 255, 255, 0, 0, 56>>
    /\ decoder.in_active_video
    /\ decoder.stats.frames_received = base_stats.frames_received + 1

\* the bytes, roles and callbacks one step adds to the histories
NewBytes == SubSeq(fed', Len(fed) + 1, Len(fed'))
NewRoles == SubSeq(role', Len(role) + 1, Len(role'))
NewEvents == SubSeq(events', Len(events) + 1, Len(events'))

OfKind(evs, k) == SelectSeq(evs, LAMBDA e : e.kind = k)

\* the step feeds a byte that is handled as a control byte; Ctl is that byte.
\* A step feeds at most one: the four bytes of a timing reference hold one
\* control byte, the fourth, or the first when a marker was already pending
\* (the detector goes through IDLE after a control byte).
ControlStep == \E k \in 1 .. Len(NewRoles) : NewRoles[k] = "control"
CtlPos == CHOOSE k \in 1 .. Len(NewRoles) : NewRoles[k] = "control"
Ctl == NewBytes[CtlPos]

\* the control byte that ends the step carries a rising edge of vsync / hsync
\* with respect to the flags stored from the previous control byte
VsyncRises == Bit(Ctl, BT656_VSYNC_BIT) /\ ~decoder.sync.vsync
HsyncRises == Bit(Ctl, BT656_HSYNC_BIT) /\ ~decoder.sync.hsync

\* C12 as stated: a control byte with a rising vsync leaves line_count = 0 and
\* pixel_count = 0, adds exactly 1 to frames_received and invokes the frame
\* callback exactly once, for every such control byte.
C12_VsyncResetsCounters ==
    [][(ControlStep /\ VsyncRises) =>
          /\ decoder'.line_count = 0
          /\ decoder'.pixel_count = 0
          /\ decoder'.stats.frames_received = decoder.stats.frames_received + 1
          /\ decoder.frame_callback # NoHandler =>
                 Len(OfKind(NewEvents, "frame")) = 1]_vars

\* C12, amended: as above, except that line_count is 1 and not 0 afterwards
\* when the same control byte also carries a rising hsync (the line block runs
\* after the frame block and counts the line).
C12_VsyncResetsUnlessHsync ==
    [][(ControlStep /\ VsyncRises) =>
          /\ decoder'.line_count = IF HsyncRises THEN 1 ELSE 0
          /\ decoder'.pixel_count = 0
          /\ decoder'.stats.frames_received = decoder.stats.frames_received + 1
          /\ decoder.frame_callback # NoHandler =>
                 Len(OfKind(NewEvents, "frame")) = 1]_vars

\* a second frame started after two lines of the first: the vsync-only control
\* byte 20 put line_count back from 2 to 0
C12_Witness ==
    /\ Len(fed) = 20
    /\ role[20] = "control"
    /\ fed[20] = 32
    /\ fed[16] = 16
    /\ decoder.stats.frames_received = 2
    /\ decoder.stats.lines_received = 2
    /\ decoder.line_count = 0
    /\ Len(OfKind(events, "frame")) = 2

\* the bytes among the first n of fed that were handled as control bytes
RECURSIVE ControlBytes(_)
ControlBytes(n) ==
    IF n = 0 THEN <<>>
    ELSE ControlBytes(n - 1) \o (IF role[n] = "control" THEN <<fed[n]>> ELSE <<>>)

\* how many control bytes of cs have the bit set while their predecessor (or,
\* for the first, the cleared flags of init) has it clear
Rising(cs, bit) ==
    Cardinality({k \in 1 .. Len(cs) : Bit(cs[k], bit) /\ (k = 1 \/ ~Bit(cs[k - 1], bit))})

\* C13: over any stream, frames_received counts and the frame callback fires
\* exactly once per control byte whose vsync bit is 1 while the previous
\* control byte's was 0; the stored flag is the vsync bit of the last control
\* byte, so a run of control bytes with vsync = 1 gives one frame event.
C13_FramePerRisingVsync ==
    LET cs == ControlBytes(Len(fed))
    IN /\ decoder.stats.frames_received = base_stats.frames_received + Rising(cs, BT656_VSYNC_BIT)
       /\ Len(OfKind(events, "frame")) =
              IF decoder.frame_callback # NoHandler THEN Rising(cs, BT656_VSYNC_BIT) ELSE 0
       /\ decoder.sync.vsync = (cs # <<>> /\ Bit(cs[Len(cs)], BT656_VSYNC_BIT))

\* three control bytes in a row carry vsync = 1, then one with vsync = 0 and one
\* with vsync = 1 again: two frame events
C13_Witness ==
    /\ ControlBytes(Len(fed)) = <<32, 48, 56, 0, 32>>
    /\ decoder.stats.frames_received = 2
    /\ Len(OfKind(events, "frame")) = 2

\* line_count as the horizontal-sync block finds it: the vertical-sync block
\* of the same control byte has already put it to 0 on a rising vsync
LineCountAtHsync == IF VsyncRises THEN 0 ELSE decoder.line_count

\* C14: a control byte with hsync = 1 while the stored hsync flag is 0 resets
\* pixel_count, adds 1 to lines_received, invokes the line callback with the
\* line_count before the increment and then adds 1 to line_count; any other
\* control byte (and any other byte) invokes no line callback and increments
\* neither lines_received nor line_count.
C14_LinePerRisingHsync ==
    [][IF ControlStep /\ HsyncRises
       THEN /\ decoder'.pixel_count = 0
            /\ decoder'.stats.lines_received = decoder.stats.lines_received + 1
            /\ decoder'.line_count = (LineCountAtHsync + 1) % U16
            /\ decoder.line_callback # NoHandler =>
                   /\ Len(OfKind(NewEvents, "line")) = 1
                   /\ OfKind(NewEvents, "line")[1].line = LineCountAtHsync
       ELSE /\ OfKind(NewEvents, "line") = <<>>
            /\ decoder'.stats.lines_received = decoder.stats.lines_received
            /\ decoder'.line_count = IF ControlStep THEN LineCountAtHsync
                                     ELSE decoder.line_count]_vars

\* the second line of a frame was announced: the callback got line number 1
\* and line_count went on to 2
C14_Witness ==
    /\ Len(fed) >= 1
    /\ role[Len(role)] = "control"
    /\ Bit(fed[Len(fed)], BT656_HSYNC_BIT)
    /\ decoder.line_count = 2
    /\ decoder.stats.lines_received = 2
    /\ Len(events) >= 1
    /\ events[Len(events)].kind = "line"
    /\ events[Len(events)].line = 1

\* the frame and line callbacks invoked so far, in order
Boundaries == SelectSeq(events, LAMBDA e : e.kind \in {"frame", "line"})

\* C15: between two frame events the line numbers given to the line callback
\* are 0-based and consecutive: the first line event after a frame event
\* carries 0, every other line event carries its predecessor's number plus 1.
C15_LineNumbersInFrame ==
    \A k \in 2 .. Len(Boundaries) :
        Boundaries[k].kind = "line" =>
            Boundaries[k].line = IF Boundaries[k - 1].kind = "frame" THEN 0
                                 ELSE Boundaries[k - 1].line + 1

\* a frame with lines 0 and 1, then the next frame starting again at line 0
C15_Witness ==
    /\ Len(Boundaries) = 5
    /\ [k \in 1 .. 5 |-> Boundaries[k].kind] = <<"frame", "line", "line", "frame", "line">>
    /\ Boundaries[2].line = 0
    /\ Boundaries[3].line = 1
    /\ Boundaries[5].line = 0

\* the callbacks that deliver a video sample
Samples(evs) == SelectSeq(evs, LAMBDA e : e.kind \in {"pixel", "rgb"})

\* C16: after a control byte in_active_video equals its sav bit; sav = 1 also
\* puts pixel_count to 0 and phase to Y1; while in_active_video is false no
\* byte is treated as a video sample until a control byte with sav = 1: no
\* pixel callback, pixels_received, phase and current_pixel unchanged.
C16_ActiveVideoFollowsSav ==
    [][/\ ControlStep =>
            /\ decoder'.in_active_video = Bit(Ctl, BT656_SAV_BIT)
            /\ Bit(Ctl, BT656_SAV_BIT) => decoder'.pixel_count = 0
            /\ (Bit(Ctl, BT656_SAV_BIT) /\ CtlPos = Len(NewRoles)) => decoder'.phase = "Y1"
       /\ (~decoder.in_active_video /\ Len(fed') > Len(fed)) =>
            IF ControlStep /\ Bit(Ctl, BT656_SAV_BIT)
            THEN CtlPos = Len(NewRoles) =>
                     /\ Samples(NewEvents) = <<>>
                     /\ decoder'.stats.pixels_received = decoder.stats.pixels_received
                     /\ decoder'.current_pixel = decoder.current_pixel
            ELSE /\ Samples(NewEvents) = <<>>
                 /\ decoder'.stats.pixels_received = decoder.stats.pixels_received
                 /\ decoder'.current_pixel = decoder.current_pixel
                 /\ decoder'.phase = decoder.phase
                 /\ ~decoder'.in_active_video]_vars

\* an active region was opened, one sample byte taken, the region closed by a
\* control byte with sav = 0, and two more bytes arrived: they left the phase
\* where the region had stopped
C16_Witness ==
    /\ Len(fed) = 11
    /\ role[4] = "control" /\ fed[4] = 8
    /\ role[9] = "control" /\ fed[9] = 0
    /\ fed[10] = 1 /\ fed[11] = 1
    /\ ~decoder.in_active_video
    /\ decoder.phase = "CR"
    /\ decoder.current_pixel = [y |-> 0, cb |-> 255, cr |-> 0]

\* the kinds of the frame and line callbacks a step invokes, in order
NewBoundaries == SelectSeq(NewEvents, LAMBDA e : e.kind \in {"frame", "line"})

\* C17: every control byte runs the vsync, the hsync and the sav/eav check,
\* in this order: the frame callback comes before the line callback, which
\* gets line number 0 when both edges rise in one byte; each edge is counted;
\* the sav/eav update and the store of the new flags happen whatever edges
\* occurred.
C17_FixedOrder ==
    [][ControlStep =>
          /\ [k \in 1 .. Len(NewBoundaries) |-> NewBoundaries[k].kind] =
                 (IF VsyncRises /\ decoder.frame_callback # NoHandler
                  THEN <<"frame">> ELSE <<>>)
                 \o (IF HsyncRises /\ decoder.line_callback # NoHandler
                     THEN <<"line">> ELSE <<>>)
          /\ (VsyncRises /\ HsyncRises /\ decoder.line_callback # NoHandler) =>
                 NewBoundaries[Len(NewBoundaries)].line = 0
          /\ decoder'.stats.frames_received =
                 decoder.stats.frames_received + (IF VsyncRises THEN 1 ELSE 0)
          /\ decoder'.stats.lines_received =
                 decoder.stats.lines_received + (IF HsyncRises THEN 1 ELSE 0)
          /\ decoder'.in_active_video = Bit(Ctl, BT656_SAV_BIT)
          /\ decoder'.sync = extract_sync_signals(Ctl)]_vars

\* after a line of an earlier frame, one control byte raised vsync and hsync
\* and carried sav: frame callback, then line callback with 0, then active video
C17_Witness ==
    /\ Len(fed) = 12
    /\ fed[4] = 16 /\ fed[8] = 0 /\ fed[12] = 56
    /\ role[12] = "control"
    /\ Len(events) = 3
    /\ events[1].kind = "line"
    /\ events[2].kind = "frame"
    /\ events[3].kind = "line" /\ events[3].line = 0
    /\ decoder.line_count = 1
    /\ decoder.in_active_video

\* the step feeds four bytes right after a control byte with sav set
GroupAfterSav == AfterSav /\ Len(NewBytes) = 4

\* the four bytes were one sample: one pixel callback with y = Y2, cb = Cb,
\* cr = Cr at (0, line_count), and one more pixel received
OneSampleDelivered ==
    /\ decoder'.stats.pixels_received = decoder.stats.pixels_received + 1
    /\ decoder.pixel_callback # NoHandler =>
           /\ Len(OfKind(NewEvents, "pixel")) = 1
           /\ LET e == OfKind(NewEvents, "pixel")[1]
              IN /\ e.px = [y |-> NewBytes[3], cb |-> NewBytes[2], cr |-> NewBytes[4]]
                 /\ e.x = 0
                 /\ e.y = decoder.line_count

\* C18 as stated: after a control byte with sav set, four bytes Y1 Cb Y2 Cr
\* give exactly one pixel callback with y = Y2, cb = Cb, cr = Cr at
\* (0, line_count) and add exactly 1 to pixels_received, for every choice of
\* the four byte values.
C18_GroupGivesSample ==
    [][GroupAfterSav => OneSampleDelivered]_vars

\* C18, amended: the same for every choice of the four byte values in which
\* FF 00 00 does not occur as three consecutive bytes.
C18_GroupWithoutMarkerGivesSample ==
    [][(GroupAfterSav /\ ~HasMarker(NewBytes)) => OneSampleDelivered]_vars

\* the group 01 FF 00 FF after the control byte 38 was delivered as the sample
\* (y, cb, cr) = (00, FF, FF) at (0, 1)
C18_Witness ==
    /\ fed = <<255, 0, 0, 56, 1, 255, 0, 255>>
    /\ role[4] = "control"
    /\ decoder.stats.pixels_received = 1
    /\ decoder.pixel_callback # NoHandler
    /\ Len(OfKind(events, "pixel")) = 1
    /\ OfKind(events, "pixel")[1].px = [y |-> 0, cb |-> 255, cr |-> 255]
    /\ OfKind(events, "pixel")[1].x = 0
    /\ OfKind(events, "pixel")[1].y = 1

NextPhase(p) ==
    CASE p = "Y1" -> "CB" [] p = "CB" -> "Y2" [] p = "Y2" -> "CR" [] p = "CR" -> "Y1"

\* the step feeds one byte that is taken as a video sample byte
SampleByteStep ==
    /\ decoder.in_active_video
    /\ Len(NewBytes) = 1
    /\ NewRoles[1] = "other"

\* C19: in active video every sample byte moves the phase one step along
\* Y1 -> Cb -> Y2 -> Cr -> Y1; only the Cr byte dispatches: the pixel callback
\* gets (pixel_count, line_count) as they were, the RGB callback follows with
\* the same coordinates only if enable_rgb_conversion is set and an RGB
\* callback is registered, then pixels_received and pixel_count grow by 1;
\* the Y1, Cb and Y2 bytes invoke nothing and change no counter.
C19_PhaseCycle ==
    [][SampleByteStep =>
          /\ decoder'.phase = NextPhase(decoder.phase)
          /\ IF decoder.phase = "CR"
             THEN LET px == [decoder.current_pixel EXCEPT !.cr = NewBytes[1]]
                      pixelEv == [kind |-> "pixel", h |-> decoder.pixel_callback, px |-> px,
                                  x |-> decoder.pixel_count, y |-> decoder.line_count]
                      rgbEv == [kind |-> "rgb", h |-> decoder.rgb_callback,
                                px |-> bt656_ycbcr_to_rgb(px),
                                x |-> decoder.pixel_count, y |-> decoder.line_count]
                  IN /\ NewEvents =
                            (IF decoder.pixel_callback # NoHandler THEN <<pixelEv>> ELSE <<>>)
                            \o (IF decoder.config.enable_rgb_conversion
                                   /\ decoder.rgb_callback # NoHandler
                                THEN <<rgbEv>> ELSE <<>>)
                     /\ decoder'.stats.pixels_received = decoder.stats.pixels_received + 1
                     /\ decoder'.pixel_count = (decoder.pixel_count + 1) % U16
             ELSE /\ NewEvents = <<>>
                  /\ decoder'.stats = decoder.stats
                  /\ decoder'.pixel_count = decoder.pixel_count
                  /\ decoder'.line_count = decoder.line_count]_vars

\* four sample bytes fed one by one after the control byte 38: the fourth
\* dispatched the pixel and then the RGB sample at (0, 1)
C19_Witness ==
    /\ Len(fed) = 8
    /\ role = <<"other", "other", "marker", "control", "other", "other", "other", "other">>
    /\ fed[4] = 56
    /\ nops = 5
    /\ decoder.phase = "Y1"
    /\ decoder.pixel_count = 1
    /\ decoder.stats.pixels_received = 1
    /\ Len(events) = 4
    /\ events[3].kind = "pixel" /\ events[3].x = 0 /\ events[3].y = 1
    /\ events[4].kind = "rgb" /\ events[4].x = 0 /\ events[4].y = 1

\* C20: a byte fed while in_active_video is false and not handled as a control
\* byte is discarded: phase, current_pixel, line_count, pixel_count, the sync
\* flags and all statistics counters stay as they are and no callback is
\* invoked; only the detector state may change.
C20_DiscardedOutsideActiveVideo ==
    [][(/\ ~decoder.in_active_video
        /\ Len(fed') = Len(fed) + 1
        /\ role'[Len(role')] # "control") =>
          /\ decoder' = [decoder EXCEPT !.state = decoder'.state]
          /\ events' = events]_vars

\* after a control byte without sav, the bytes 01 and FF were discarded: the
\* second one moved the detector to FF and nothing else changed
C20_Witness ==
    /\ fed = <<255, 0, 0, 1, 1, 255>>
    /\ role = <<"other", "other", "marker", "control", "other", "other">>
    /\ ~decoder.in_active_video
    /\ decoder.state = "FF"
    /\ decoder.stats = base_stats
    /\ events = <<>>

\* ====================== claims, decoder life cycle ==========================

\* C21: bt656_decoder_reset, from any reachable decoder state, leaves
\* state = IDLE, phase = Y1, in_active_video = false, line_count = 0,
\* pixel_count = 0 and all stored sync flags false, and does not touch the
\* statistics, the configuration or the four callbacks.
C21_ResetEffect ==
    [][Reset =>
          /\ decoder'.state = "IDLE"
          /\ decoder'.phase = "Y1"
          /\ ~decoder'.in_active_video
          /\ decoder'.line_count = 0
          /\ decoder'.pixel_count = 0
          /\ decoder'.sync = ZeroSync
          /\ decoder'.stats = decoder.stats
          /\ decoder'.config = decoder.config
          /\ decoder'.pixel_callback = decoder.pixel_callback
          /\ decoder'.rgb_callback = decoder.rgb_callback
          /\ decoder'.frame_callback = decoder.frame_callback
          /\ decoder'.line_callback = decoder.line_callback]_vars

\* the decoder was reset in the middle of an active region of the first
\* frame, after one line: the counters of that frame and line are kept
C21_Witness ==
    /\ fed = <<>>
    /\ nops = 5
    /\ base_stats.frames_received = 1
    /\ base_stats.lines_received = 1
    /\ decoder.stats = base_stats
    /\ decoder.state = "IDLE"
    /\ ~decoder.in_active_video
    /\ decoder.line_count = 0
    /\ decoder.sync = ZeroSync

\* ======================= the decoder's whole interface ======================

\* number of decoder calls in a run that mixes feeding with the other calls
MaxLifeOps == 5

\* handlers registered after construction: none, or a second handler
LaterHandlers == {NoHandler, 2}

\* what is fed in one call sequence: a timing reference that starts a frame,
\* a line and an active region, one that ends the region, and a sample group
LifeChunks == {Reference(56), Reference(0), <<1, 1, 1, 1>>}

LifeFeed == \E bs \in LifeChunks : FeedChunk(bs, MaxLifeOps)

\* a decoder call that feeds nothing
LifeCall(d) ==
    /\ nops < MaxLifeOps
    /\ decoder' = d
    /\ nops' = nops + 1
    /\ UNCHANGED <<fed, role, events, base_stats, qvars>>

LifeReset ==
    /\ nops < MaxLifeOps
    /\ decoder' = bt656_decoder_reset(decoder)
    /\ fed' = <<>>
    /\ role' = <<>>
    /\ events' = <<>>
    /\ base_stats' = decoder.stats
    /\ nops' = nops + 1
    /\ UNCHANGED qvars

LifeResetStats == LifeCall(bt656_decoder_reset_stats(decoder))

LifeSetConfig ==
    \E config \in {NoConfig} \cup [enable_rgb_conversion : BOOLEAN] :
        LifeCall(bt656_decoder_set_config(decoder, config))

LifeSetPixelCallback ==
    \E h \in LaterHandlers : LifeCall(bt656_decoder_set_pixel_callback(decoder, h))
LifeSetRgbCallback ==
    \E h \in LaterHandlers : LifeCall(bt656_decoder_set_rgb_callback(decoder, h))
LifeSetFrameCallback ==
    \E h \in LaterHandlers : LifeCall(bt656_decoder_set_frame_callback(decoder, h))
LifeSetLineCallback ==
    \E h \in LaterHandlers : LifeCall(bt656_decoder_set_line_callback(decoder, h))

LifeNext ==
    \/ LifeFeed
    \/ LifeReset
    \/ LifeResetStats
    \/ LifeSetConfig
    \/ LifeSetPixelCallback
    \/ LifeSetRgbCallback
    \/ LifeSetFrameCallback
    \/ LifeSetLineCallback

\* the decoder under any sequence of its calls
LifeSpec == DecoderInit /\ [][LifeNext]_vars

Counters ==
    {"frames_received", "lines_received", "pixels_received",
     "timing_errors", "sync_errors", "data_errors"}

\* C22: the six statistics counters are zero after bt656_decoder_init and
\* after bt656_decoder_reset_stats, and no process_byte, reset, set_config or
\* callback-registration call makes any of them smaller.
C22_StatsMonotonic ==
    /\ decoder.stats = ZeroStats
    /\ [][IF LifeResetStats
          THEN decoder'.stats = ZeroStats
          ELSE \A c \in Counters : decoder'.stats[c] >= decoder.stats[c]]_vars

\* the statistics were cleared after a first frame and the counting resumed
\* from zero: two frame callbacks were seen, frames_received is 1
C22_Witness ==
    /\ Len(OfKind(events, "frame")) = 2
    /\ decoder.stats.frames_received = 1
    /\ decoder.stats.lines_received = 1
    /\ base_stats = ZeroStats

\* C23: a data byte arriving while no active-video region is open is recorded
\* in the statistics: data_errors increases (bytes that belong to a timing
\* reference, FF and 00 and the control byte, are not data bytes).
C23_DataErrorsRecorded ==
    [][(/\ ~decoder.in_active_video
        /\ Len(fed') = Len(fed) + 1
        /\ role'[Len(role')] = "other"
        /\ fed'[Len(fed')] \notin {BT656_TR_MARKER_FF, BT656_TR_MARKER_00}) =>
          decoder'.stats.data_errors > decoder.stats.data_errors]_vars

\* ========================== setting the interface up ========================

\* a null data_buffer
NullBuffer == <<>>

\* the interface structure after memset(interface, 0, sizeof(...))
ZeroInterface ==
    [config |-> [buffer_size |-> 0, enable_interrupts |-> FALSE],
     stats |-> [interrupts_handled |-> 0, bytes_captured |-> 0, buffer_overflows |-> 0],
     data_buffer |-> NullBuffer,
     buffer_head |-> 0,
     buffer_tail |-> 0,
     buffer_full |-> FALSE,
     interrupt_enabled |-> FALSE]

\* what the platform answers during one bt656_interface_init call:
\* gpio_install_isr_service, bt656_interface_validate_pins on the pins of the
\* configuration, malloc, pclk_pin != 255 and digitalPinToInterrupt; at most
\* one of them is made to differ from the good case
EnvWith(p) ==
    [isr_ret |-> IF p = "isr" THEN "ESP_FAIL" ELSE "ESP_OK",
     pins_valid |-> p # "pins",
     alloc_ok |-> p # "alloc",
     pclk_set |-> p # "pclk",
     irq_valid |-> p # "irq"]

InitEnv == {EnvWith(p) : p \in {"none", "isr", "pins", "alloc", "pclk", "irq"}}

\* bt656_interface_init called on interface i with a non-null configuration:
\* the interface, the global ISR pointer and g_gpio_isr_installed after the
\* call, and the return value
bt656_interface_init_call(i, g, installed, config, env) ==
    LET z == ZeroInterface
        c == [z EXCEPT !.config = config]
        b == [c EXCEPT !.data_buffer = [k \in 0 .. config.buffer_size - 1 |-> Uninit]]
    IN IF ~installed /\ env.isr_ret = "ESP_FAIL"
       THEN [ifc |-> z, g |-> g, installed |-> FALSE, ret |-> FALSE]
       ELSE IF ~env.pins_valid
            THEN [ifc |-> c, g |-> g, installed |-> TRUE, ret |-> FALSE]
            ELSE IF ~env.alloc_ok
                 THEN [ifc |-> c, g |-> g, installed |-> TRUE, ret |-> FALSE]
                 ELSE IF config.enable_interrupts /\ env.pclk_set
                      THEN IF ~env.irq_valid
                           THEN [ifc |-> b, g |-> TRUE, installed |-> TRUE, ret |-> FALSE]
                           ELSE [ifc |-> [b EXCEPT !.interrupt_enabled = TRUE],
                                 g |-> TRUE, installed |-> TRUE, ret |-> TRUE]
                      ELSE [ifc |-> b, g |-> TRUE, installed |-> TRUE, ret |-> TRUE]

\* configurations passed to a later bt656_interface_init call
InitConfigs == [buffer_size : 1 .. MaxCap, enable_interrupts : BOOLEAN]

\* bt656_interface_init called again on the interface in use (the ISR service
\* is installed since the first call); ok is the value it returns
InitCall(ok) ==
    /\ pc = "idle"
    /\ \E config \in InitConfigs, env \in InitEnv :
         LET r == bt656_interface_init_call(interface, g_interface, TRUE, config, env)
         IN /\ r.ret = ok
            /\ interface' = r.ifc
            /\ g_interface' = r.g
    /\ UNCHANGED <<last_pclk_state, sampled, accepted, push_ret, consumer, locals>>

SetupNext ==
    \/ Isr /\ UNCHANGED dvars
    \/ InitCall(TRUE) /\ UNCHANGED dvars
    \/ InitCall(FALSE) /\ UNCHANGED dvars

\* the producer side with bt656_interface_init called again at any time
SetupSpec == Init /\ [][SetupNext]_vars

\* C24: a bt656_interface_init call that returns false leaves the interface
\* structure (with its buffer) and the global ISR pointer as they were
\* before the call.
C24_FailedInitKeepsState ==
    [][(InitCall(FALSE) /\ UNCHANGED dvars) =>
          /\ interface' = interface
          /\ g_interface' = g_interface]_vars

\* ===================== producer and consumer contexts =======================

\* bt656_interface_reset_stats
bt656_interface_reset_stats(i) ==
    [i EXCEPT !.stats = [interrupts_handled |-> 0, bytes_captured |-> 0,
                         buffer_overflows |-> 0]]

\* the main loop calls bt656_interface_reset_stats; interrupts are not masked
InterfaceResetStats ==
    /\ pc = "idle"
    /\ interface' = bt656_interface_reset_stats(interface)
    /\ UNCHANGED <<g_interface, last_pclk_state, sampled, accepted, push_ret,
                   consumer, locals>>

ContextNext ==
    \/ Isr /\ UNCHANGED dvars
    \/ Drain /\ UNCHANGED dvars
    \/ InterfaceResetStats /\ UNCHANGED dvars

\* the ISR and the main-loop calls that write the interface
ContextSpec == Init /\ [][ContextNext]_vars

\* C25: while the ISR is attached, only the cursors and the full flag are
\* written by both contexts: the producer (the step that samples a byte)
\* leaves the read cursor and the decoder alone, and no main-loop call writes
\* what the producer writes besides the full flag, that is the write cursor,
\* the buffer cells and the capture statistics.
C25_OneWriterPerField ==
    [][interface.interrupt_enabled =>
          IF PushStep
          THEN /\ interface'.buffer_tail = interface.buffer_tail
               /\ interface'.config = interface.config
               /\ decoder' = decoder
          ELSE /\ interface'.buffer_head = interface.buffer_head
               /\ interface'.data_buffer = interface.data_buffer
               /\ interface'.stats = interface.stats]_vars

\* ======================= direct and buffered decoding =======================

\* bt656_pclk_isr_direct after the bus read, for an interface whose decoder
\* pointer is set: the interface, the decoder and the callbacks invoked
bt656_pclk_isr_direct(g, i, d, data) ==
    IF ~g \/ ~i.interrupt_enabled
    THEN [ifc |-> i, d |-> d, ev |-> <<>>]
    ELSE LET r == bt656_decoder_process_byte(d, data)
         IN [ifc |-> [i EXCEPT !.stats.interrupts_handled = @ + 1,
                               !.stats.bytes_captured = @ + 1],
             d |-> r.d, ev |-> r.ev]

\* the bytes bs sampled one after the other by bt656_pclk_isr_direct
RECURSIVE DirectRun(_, _, _)
DirectRun(i, d, bs) ==
    IF bs = <<>>
    THEN [ifc |-> i, d |-> d, ev |-> <<>>]
    ELSE LET r == bt656_pclk_isr_direct(TRUE, i, d, Head(bs))
             rest == DirectRun(r.ifc, r.d, Tail(bs))
         IN [ifc |-> rest.ifc, d |-> rest.d, ev |-> r.ev \o rest.ev]

\* buffered mode: the main loop drains up to m bytes and gives them to the
\* decoder in drain order
DrainToDecoder(m) ==
    /\ pc = "idle"
    /\ LET r == bt656_interface_read_data(interface, m)
           f == Feed(decoder, r.out)
       IN /\ interface' = r.ifc
          /\ drained' = drained \o r.out
          /\ rd' = [req |-> m, ret |-> Len(r.out)]
          /\ first_drain' = NoteDrain(m, r.out)
          /\ decoder' = f.d
          /\ fed' = fed \o r.out
          /\ role' = role \o f.roles
          /\ events' = events \o f.ev
    /\ UNCHANGED <<g_interface, last_pclk_state, sampled, accepted, push_ret,
                   avail_ret, locals, base_stats, nops>>

BufferedDrain == \E m \in 1 .. MaxCount : DrainToDecoder(m)

BufferedNext ==
    \/ Isr /\ UNCHANGED dvars
    \/ BufferedDrain

\* buffered decoding with a main loop that keeps draining
BufferedSpec == Init /\ [][BufferedNext]_vars /\ WF_vars(BufferedDrain)

\* what direct decoding makes of the bytes sampled so far
Direct ==
    DirectRun([interface EXCEPT !.interrupt_enabled = TRUE], DecoderSetup(TRUE, 1), sampled)

\* C26: as long as no overflow occurs, buffered decoding comes to the same
\* callbacks, decoder state and statistics as decoding each byte at sample
\* time, whatever the sizes of the drains.
C26_BufferedEqualsDirect ==
    []<>(\/ interface.stats.buffer_overflows > 0
         \/ (decoder = Direct.d /\ events = Direct.ev))

CallbackOf(d, kind) ==
    CASE kind = "pixel" -> d.pixel_callback
      [] kind = "rgb" -> d.rgb_callback
      [] kind = "frame" -> d.frame_callback
      [] kind = "line" -> d.line_callback

\* d with a handler in every callback that is unset
AllRegistered(d) ==
    [d EXCEPT !.pixel_callback = IF @ = NoHandler THEN 1 ELSE @,
              !.rgb_callback = IF @ = NoHandler THEN 1 ELSE @,
              !.frame_callback = IF @ = NoHandler THEN 1 ELSE @,
              !.line_callback = IF @ = NoHandler THEN 1 ELSE @]

\* d with the four callbacks of e
WithCallbacksOf(d, e) ==
    [d EXCEPT !.pixel_callback = e.pixel_callback,
              !.rgb_callback = e.rgb_callback,
              !.frame_callback = e.frame_callback,
              !.line_callback = e.line_callback]

\* a set_*_callback(h) call leaves h registered, whatever was registered
SetterReplaces ==
    \A h \in LaterHandlers :
        /\ LifeCall(bt656_decoder_set_pixel_callback(decoder, h)) => decoder'.pixel_callback = h
        /\ LifeCall(bt656_decoder_set_rgb_callback(decoder, h)) => decoder'.rgb_callback = h
        /\ LifeCall(bt656_decoder_set_frame_callback(decoder, h)) => decoder'.frame_callback = h
        /\ LifeCall(bt656_decoder_set_line_callback(decoder, h)) => decoder'.line_callback = h

\* every callback invoked while bytes are fed goes to the handler registered
\* for its kind at that time; an unset callback is not invoked
OnlyRegisteredInvoked ==
    Len(fed') > Len(fed) =>
        \A k \in 1 .. Len(NewEvents) :
            /\ NewEvents[k].h # NoHandler
            /\ NewEvents[k].h = CallbackOf(decoder, NewEvents[k].kind)

\* the decoder after the bytes of this step had every callback been registered
AsIfRegistered == WithCallbacksOf(Feed(AllRegistered(decoder), NewBytes).d, decoder)

\* C27 as stated: a setter replaces the handler, only the registered handler
\* of a kind is invoked, and with a callback unset the decoder's counters and
\* state are updated exactly as if a handler were registered.
C27_ReplaceOnSet ==
    [][/\ SetterReplaces
       /\ OnlyRegisteredInvoked
       /\ Len(fed') > Len(fed) => decoder' = AsIfRegistered]_vars

\* C27, amended: the same, except for current_rgb, which is written only
\* when enable_rgb_conversion is set and an RGB callback is registered.
C27_ReplaceOnSetButRgb ==
    [][/\ SetterReplaces
       /\ OnlyRegisteredInvoked
       /\ Len(fed') > Len(fed) =>
              decoder' = [AsIfRegistered EXCEPT !.current_rgb = decoder'.current_rgb]]_vars

\* the frame handler 1 was invoked for the first frame, replaced by handler 2,
\* and handler 2 was invoked for the second frame
C27_Witness ==
    /\ decoder.frame_callback = 2
    /\ Len(OfKind(events, "frame")) = 2
    /\ OfKind(events, "frame")[1].h = 1
    /\ OfKind(events, "frame")[2].h = 2
    /\ decoder.stats.frames_received = 2

\* ============================ claims, end to end ============================

\* the stream of the scenario: FF 00 00 10, a timing reference with control
\* byte c2, the four bytes px, a timing reference with control byte c3
Scenario(c2, px, c3) == Reference(16) \o Reference(c2) \o px \o Reference(c3)

\* a fresh decoder with all callbacks registered has been fed exactly a
\* scenario stream whose second control byte has sav set and whose last
\* control byte has sav clear and vsync set
ScenarioFed ==
    /\ base_stats = ZeroStats
    /\ decoder.pixel_callback # NoHandler
    /\ Len(fed) = 16
    /\ fed = Scenario(fed[8], SubSeq(fed, 9, 12), fed[16])
    /\ Bit(fed[8], BT656_SAV_BIT)
    /\ ~Bit(fed[16], BT656_SAV_BIT)
    /\ Bit(fed[16], BT656_VSYNC_BIT)

\* one line callback with line 0, one pixel callback at (0, y), one frame
\* callback, and each of the three counters at 1
ScenarioOutcome(y) ==
    /\ Len(OfKind(events, "line")) = 1
    /\ OfKind(events, "line")[1].line = 0
    /\ Len(OfKind(events, "pixel")) = 1
    /\ OfKind(events, "pixel")[1].x = 0
    /\ OfKind(events, "pixel")[1].y = y
    /\ Len(OfKind(events, "frame")) = 1
    /\ decoder.stats.lines_received = 1
    /\ decoder.stats.frames_received = 1
    /\ decoder.stats.pixels_received = 1

\* C28 as stated: the scenario gives one line callback with line 0, one pixel
\* callback at (0, 0), one frame callback and the three counters at 1.
C28_EndToEnd == ScenarioFed => ScenarioOutcome(0)

\* C28, amended: when the sav control byte does not carry vsync (so that vsync
\* rises on the last control byte), none of the four pixel bytes is FF and
\* the last control byte does not raise hsync a second time, the outcome is
\* as stated except that the pixel callback comes at (0, 1): the line event
\* has already moved line_count to 1.
C28_EndToEndLineOne ==
    (/\ ScenarioFed
     /\ ~Bit(fed[8], BT656_VSYNC_BIT)
     /\ \A k \in 9 .. 12 : fed[k] # BT656_TR_MARKER_FF
     /\ Bit(fed[16], BT656_HSYNC_BIT) => Bit(fed[8], BT656_HSYNC_BIT)) =>
        ScenarioOutcome(1)

\* FF 00 00 10, FF 00 00 08, 01 00 01 01, FF 00 00 20 was fed and the frame
\* has been announced
C28_Witness ==
    /\ fed = Scenario(8, <<1, 0, 1, 1>>, 32)
    /\ decoder.pixel_callback # NoHandler
    /\ decoder.stats.frames_received = 1
    /\ ~decoder.in_active_video
    /\ events[Len(events)].kind = "frame"

\* ---------------------------------------------------------------------------
\* Colour space conversion (bt656_decoder.cpp, 298-331)
\* ---------------------------------------------------------------------------

MaxColourOps == 2

\* a | b on 16-bit operands
RECURSIVE BitOr(_, _, _)
BitOr(a, b, n) ==
    IF n = 0 THEN 0
    ELSE (IF a % 2 = 1 \/ b % 2 = 1 THEN 1 ELSE 0)
         + 2 * BitOr(a \div 2, b \div 2, n - 1)

\* variant: green reduced to five bits, as in RGB555
bt656_rgb_to_rgb565_five_green(rgb) ==
    LET r == (rgb.r \div 8) % 32
        g == (rgb.g \div 8) % 32
        b == (rgb.b \div 8) % 32
    IN BitOr(BitOr((r * 2048) % U16, (g * 32) % U16, 16), b, 16)

\* bt656_rgb_to_rgb565: >> 3 and >> 2 as divisions, & 0x1F and & 0x3F as
\* remainders, << 11 and << 5 as products truncated to the uint16_t result
bt656_rgb_to_rgb565(rgb) ==
    LET r == (rgb.r \div 8) % 32
        g == (rgb.g \div 4) % 64
        b == (rgb.b \div 8) % 32
    IN BitOr(BitOr((r * 2048) % U16, (g * 32) % U16, 16), b, 16)

Ycbcr(y, cb, cr) == [y |-> y, cb |-> cb, cr |-> cr]

Black == Ycbcr(16, 128, 128)
White == Ycbcr(235, 128, 128)

\* the samples handed to bt656_ycbcr_to_rgb, as <<y, cb, cr>>: black, white,
\* the extremes of the byte range, mid grey and the three saturated primaries
YcbcrSamples ==
    {<<16, 128, 128>>, <<235, 128, 128>>, <<0, 0, 0>>, <<255, 255, 255>>,
     <<126, 128, 128>>, <<81, 90, 240>>, <<145, 54, 34>>, <<41, 240, 110>>}

\* channel values that between them set and clear every bit: only dropped
\* bits, alternate bits both ways, all bits
ChannelValues == {7, 85, 170, 255}

\* what a call bt656_rgb_to_rgb565(bt656_ycbcr_to_rgb(s)) is given and returns
ConvertEvent(t) ==
    [kind |-> "convert", ycbcr |-> Ycbcr(t[1], t[2], t[3]),
     rgb |-> bt656_ycbcr_to_rgb(Ycbcr(t[1], t[2], t[3])),
     rgb565 |-> bt656_rgb_to_rgb565(bt656_ycbcr_to_rgb(Ycbcr(t[1], t[2], t[3])))]

\* what a call bt656_rgb_to_rgb565(v) is given and returns
PackEvent(r, g, b) ==
    [kind |-> "pack", rgb |-> [r |-> r, g |-> g, b |-> b],
     rgb565 |-> bt656_rgb_to_rgb565([r |-> r, g |-> g, b |-> b])]

\* the application converts a sample: the arguments and the results are
\* values, no decoder is passed
ConvertSample ==
    \E t \in YcbcrSamples :
        /\ nops < MaxColourOps
        /\ events' = Append(events, ConvertEvent(t))
        /\ nops' = nops + 1
        /\ UNCHANGED <<decoder, fed, role, base_stats, qvars>>

\* the application packs an RGB value
PackRgb ==
    \E r, g, b \in ChannelValues :
        /\ nops < MaxColourOps
        /\ events' = Append(events, PackEvent(r, g, b))
        /\ nops' = nops + 1
        /\ UNCHANGED <<decoder, fed, role, base_stats, qvars>>

ColourFeed == \E bs \in LifeChunks : FeedChunk(bs, MaxColourOps)

ColourNext ==
    \/ ColourFeed
    \/ ConvertSample
    \/ PackRgb

\* a decoder that is fed while the application converts colours
ColourSpec == DecoderInit /\ [][ColourNext]_vars

Converted == OfKind(events, "convert")

\* C29: bt656_ycbcr_to_rgb maps BT.601 black (16, 128, 128) to (0, 0, 0) and
\* BT.601 white (235, 128, 128) to (255, 255, 255).
C29_BlackAndWhite ==
    \A k \in 1 .. Len(Converted) :
        /\ Converted[k].ycbcr = Black =>
               Converted[k].rgb = [r |-> 0, g |-> 0, b |-> 0]
        /\ Converted[k].ycbcr = White =>
               Converted[k].rgb = [r |-> 255, g |-> 255, b |-> 255]

Packed == OfKind(events, "pack") \o Converted

\* bit j of the 8-bit channel value c is bit k of the 16-bit value v
SameBit(c, j, v, k) == Bit(c, j) <=> Bit(v, k)

\* every recorded rgb565 value is the 5-6-5 packing of its RGB value, and equal
\* arguments gave equal results
Rgb565Packing ==
    /\ \A k \in 1 .. Len(Packed) :
           LET rgb == Packed[k].rgb
               v == Packed[k].rgb565
           IN /\ v \in 0 .. U16 - 1
              /\ \A j \in 0 .. 4 : SameBit(rgb.r, 3 + j, v, 11 + j)
              /\ \A j \in 0 .. 5 : SameBit(rgb.g, 2 + j, v, 5 + j)
              /\ \A j \in 0 .. 4 : SameBit(rgb.b, 3 + j, v, j)
    /\ \A k, m \in 1 .. Len(Packed) :
           Packed[k].rgb = Packed[m].rgb => Packed[k].rgb565 = Packed[m].rgb565
    /\ \A k, m \in 1 .. Len(Converted) :
           Converted[k].ycbcr = Converted[m].ycbcr =>
               Converted[k].rgb565 = Converted[m].rgb565

\* the step is a conversion call
ConversionStep ==
    /\ Len(events') = Len(events) + 1
    /\ events'[Len(events')].kind \in {"convert", "pack"}

\* C30: bt656_rgb_to_rgb565 puts the top 5 bits of r in bits 15..11, the top
\* 6 bits of g in bits 10..5 and the top 5 bits of b in bits 4..0 of a 16-bit
\* result, for every RGB value; converting the same sample twice gives the
\* same 16-bit result, and a conversion call changes no decoder state.
C30_Rgb565 ==
    /\ []Rgb565Packing
    /\ [][ConversionStep => decoder' = decoder]_vars

\* white was converted twice, to 0xDEDB both times
C30_Witness ==
    /\ Len(Converted) = 2
    /\ Converted[1].ycbcr = White
    /\ Converted[2].ycbcr = White
    /\ Converted[2].rgb565 = 57051

\* ---------------------------------------------------------------------------
\* The detector on every byte value (bt656_decoder.cpp, 9-43 and 208-228)
\* ---------------------------------------------------------------------------

\* number of bytes fed before the byte drawn from the whole byte range
MaxPrefix == 3

AllBytes == 0 .. 255

\* bt656_state_t
DetectorStates == {"IDLE", "FF", "FF00", "FF0000", "CONTROL_BYTE", "ACTIVE_VIDEO"}

\* a byte that brings the detector to the state under test
TablePrefix == \E b \in StreamBytes : FeedChunk(<<b>>, MaxPrefix)

\* one byte of any value, the last of the run
TableByte ==
    /\ nops <= MaxPrefix
    /\ \E b \in AllBytes :
         LET r == Feed(decoder, <<b>>)
         IN /\ decoder' = r.d
            /\ fed' = Append(fed, b)
            /\ role' = role \o r.roles
            /\ events' = events \o r.ev
    /\ nops' = MaxPrefix + 1
    /\ UNCHANGED <<base_stats, qvars>>

TableNext == TablePrefix \/ TableByte

\* the decoder fed a few marker bytes and then any byte
TableSpec == DecoderInit /\ [][TableNext]_vars

\* the stated transition table
TableEntry(s, b) ==
    CASE s = "IDLE" -> IF b = 255 THEN "FF" ELSE "IDLE"
      [] s = "FF" -> IF b = 0 THEN "FF00" ELSE "IDLE"
      [] s = "FF00" -> IF b = 0 THEN "FF0000" ELSE "IDLE"
      [] s = "FF0000" -> "CONTROL_BYTE"
      [] OTHER -> "IDLE"

\* from the current decoder put in any state, the detector moves as the table
\* says, changes nothing else, and reports a marker exactly on FF00 with 00
DetectorFollowsTable ==
    \A s \in DetectorStates, b \in AllBytes :
        LET t == detect_timing_reference([decoder EXCEPT !.state = s], b)
        IN /\ t.d = [decoder EXCEPT !.state = TableEntry(s, b)]
           /\ t.found <=> (s = "FF00" /\ b = 0)

\* a byte given to bt656_decoder_process_byte leaves the state the table
\* gives, and IDLE once the control byte has been handled
ByteFollowsTable ==
    Len(fed') = Len(fed) + 1 =>
        /\ decoder'.state = IF decoder.state = "FF0000" THEN "IDLE"
                            ELSE TableEntry(decoder.state, fed'[Len(fed')])
        /\ (role'[Len(role')] = "control") <=> (decoder.state = "FF0000")

\* C31: the detector follows the stated transition table for every state and
\* byte value (IDLE to FF on FF; FF to FF00 on 00, else IDLE; FF00 to FF0000 on
\* 00 with the marker signalled, else IDLE; FF0000 to CONTROL_BYTE on any
\* byte; any other state to IDLE), and the state is IDLE again after the
\* control byte is handled.
C31_TransitionTable ==
    /\ []DetectorFollowsTable
    /\ [][ByteFollowsTable]_vars

\* FF 00 00 C8 was fed: C8, a byte outside the marker alphabet, was taken as
\* the control byte and the detector is back in IDLE
C31_Witness ==
    /\ fed = <<255, 0, 0, 200>>
    /\ role[4] = "control"
    /\ decoder.state = "IDLE"
    /\ decoder.in_active_video

\* the step feeds one byte that breaks a marker under way: FF followed by a
\* byte other than 00, or FF 00 followed by a byte other than 00
MalformedStep ==
    /\ Len(NewBytes) = 1
    /\ decoder.state \in {"FF", "FF00"}
    /\ NewBytes[1] # BT656_TR_MARKER_00

\* C32: a malformed timing reference is recovered silently: on the offending
\* byte the detector returns to IDLE, no sync flag changes, no frame or line
\* callback fires, and no statistics counter changes because of it (the error
\* counters, frames_received and lines_received keep their values;
\* pixels_received moves only if the byte completes a sample as video data).
C32_SilentRecovery ==
    [][MalformedStep =>
          /\ decoder'.state = "IDLE"
          /\ decoder'.sync = decoder.sync
          /\ decoder'.in_active_video = decoder.in_active_video
          /\ decoder'.frame_started = decoder.frame_started
          /\ decoder'.line_count = decoder.line_count
          /\ Boundaries' = Boundaries
          /\ \A c \in Counters \ {"pixels_received"} :
                 decoder'.stats[c] = decoder.stats[c]
          /\ decoder'.stats.pixels_received # decoder.stats.pixels_received =>
                 /\ decoder.in_active_video
                 /\ decoder.phase = "CR"
                 /\ decoder'.stats.pixels_received = decoder.stats.pixels_received + 1]_vars

\* FF 00 00 08, FF, 01 was fed: the 01 broke the marker begun by the FF
C32_Witness ==
    /\ fed = Reference(8) \o <<255, 1>>
    /\ decoder.state = "IDLE"
    /\ decoder.in_active_video
    /\ decoder.stats = ZeroStats
    /\ events = <<>>

\* the step feeds a whole timing reference FF 00 00 <control> to a detector at
\* rest, inside active video
ReferenceInActiveVideo ==
    /\ decoder.in_active_video
    /\ decoder.state = "IDLE"
    /\ Len(NewBytes) = 4
    /\ NewBytes = Reference(NewBytes[4])

\* C33: the bytes of a timing reference are never consumed as video samples:
\* while in_active_video is true, feeding FF 00 00 <control> does not advance
\* the pixel phase (a control byte with sav = 1 puts it back to Y1), does not
\* overwrite current_pixel, triggers no pixel callback and does not increment
\* pixels_received.
C33_ReferenceNotSampled ==
    [][ReferenceInActiveVideo =>
          /\ decoder'.phase \in {decoder.phase, "Y1"}
          /\ decoder'.current_pixel = decoder.current_pixel
          /\ Samples(NewEvents) = <<>>
          /\ decoder'.stats.pixels_received = decoder.stats.pixels_received]_vars

\* ---------------------------------------------------------------------------
\* The capture interface: availability, reconfiguration, shutdown
\* ---------------------------------------------------------------------------

\* C34: whenever bt656_interface_get_available_data reports a value greater
\* than 0, a call of bt656_interface_read_data with max_count >= 1 returns at
\* least one byte; in particular a queue that has just become full can be
\* drained.
C34_AvailableCanBeRead ==
    [][\A m \in 1 .. MaxCount :
         (bt656_interface_get_available_data(interface) > 0 /\ ReadData(m)) =>
             /\ rd'.ret >= 1
             /\ Len(drained') > Len(drained)]_vars

\* variant: the interrupt is detached but interrupt_enabled is left set
bt656_interface_stop_keeps_flag(i) == i

\* bt656_interface_stop: interrupt_enabled is only ever set by
\* bt656_interface_init when pclk_pin is connected, so the second half of the
\* test holds whenever the first does
bt656_interface_stop(i) ==
    IF i.interrupt_enabled THEN [i EXCEPT !.interrupt_enabled = FALSE] ELSE i

\* bt656_interface_set_config with a non-null configuration: the running
\* interface is stopped, the configuration is copied, data_buffer is kept
bt656_interface_set_config(i, config) ==
    [bt656_interface_stop(i) EXCEPT !.config = config]

\* the number of bytes malloc gave data_buffer
Allocated(i) == Cardinality(DOMAIN i.data_buffer)

\* both cursors index inside the allocation
InBounds(i) == i.buffer_head < Allocated(i) /\ i.buffer_tail < Allocated(i)

\* number of bt656_interface_set_config and bt656_interface_read_data calls
\* in one run, counted in nops
MaxConfigOps == 3

SetConfig ==
    /\ pc = "idle"
    /\ nops < MaxConfigOps
    /\ \E size \in 1 .. MaxCap, enable \in BOOLEAN :
         interface' = bt656_interface_set_config(
                          interface, [buffer_size |-> size, enable_interrupts |-> enable])
    /\ nops' = nops + 1
    /\ UNCHANGED <<g_interface, last_pclk_state, sampled, accepted, push_ret,
                   consumer, locals, decoder, fed, role, events, base_stats>>

\* bt656_interface_read_data(max_count = 1): one cell read, at the read cursor
ConfigDrain ==
    /\ nops < MaxConfigOps
    /\ ReadData(1)
    /\ nops' = nops + 1
    /\ UNCHANGED <<decoder, fed, role, events, base_stats>>

\* a queue access at a cursor outside the allocation is undefined; the run is
\* followed up to the state from which such an access would be made
ConfigNext ==
    \/ InBounds(interface) /\ Isr /\ UNCHANGED dvars
    \/ InBounds(interface) /\ PollData /\ UNCHANGED dvars
    \/ InBounds(interface) /\ ConfigDrain
    \/ InBounds(interface) /\ SetConfig

\* the capture queue with bt656_interface_set_config called at any time
ConfigSpec == Init /\ [][ConfigNext]_vars

\* C35: after any sequence of bt656_interface_init, pushes, drains and
\* bt656_interface_set_config calls, buffer_head and buffer_tail are both
\* strictly less than the number of bytes allocated for data_buffer.
C35_CursorsInsideAllocation == InBounds(interface)

\* buffered capture from either producer, drained and with the statistics
\* reset between capture events
CaptureNext ==
    \/ Isr /\ UNCHANGED dvars
    \/ PollData /\ UNCHANGED dvars
    \/ Drain /\ UNCHANGED dvars
    \/ InterfaceResetStats /\ UNCHANGED dvars

CaptureSpec == Init /\ [][CaptureNext]_vars

\* the three counters add up
CountersAddUp ==
    interface.stats.interrupts_handled =
        interface.stats.bytes_captured + interface.stats.buffer_overflows

\* a statistics reset zeroes the counters; any other step raises
\* bytes_captured by the number of bytes it stored in the queue
CapturedCountsAccepted ==
    IF InterfaceResetStats
    THEN interface'.stats.bytes_captured = 0
    ELSE interface'.stats.bytes_captured - interface.stats.bytes_captured =
             Len(accepted') - Len(accepted)

\* C36: in buffered capture, after any number of capture events since the
\* last statistics reset (none running concurrently), interrupts_handled =
\* bytes_captured + buffer_overflows, and bytes_captured is the number of
\* bytes accepted into the queue since that reset.
C36_CaptureCounters ==
    /\ interface.stats.bytes_captured = Len(accepted)
    /\ []CountersAddUp
    /\ [][CapturedCountsAccepted]_vars

\* after a reset, a byte was captured and another was rejected
C36_Witness ==
    /\ interface.stats.bytes_captured = 1
    /\ interface.stats.buffer_overflows = 1
    /\ interface.stats.interrupts_handled = 2
    /\ Len(accepted) = 3

\* number of ISR invocations served after the interrupt was detached, counted
\* in nops
MaxLateIsr == 2

\* bt656_interface_deinit: the interface and the global ISR pointer after it
bt656_interface_deinit(i, g) ==
    [ifc |-> [bt656_interface_stop(i) EXCEPT !.data_buffer = NullBuffer],
     g |-> FALSE]

Stop ==
    /\ pc = "idle"
    /\ interface' = bt656_interface_stop(interface)
    /\ UNCHANGED <<g_interface, last_pclk_state, sampled, accepted, push_ret,
                   consumer, locals>>

Deinit ==
    /\ pc = "idle"
    /\ LET r == bt656_interface_deinit(interface, g_interface)
       IN /\ interface' = r.ifc
          /\ g_interface' = r.g
    /\ UNCHANGED <<last_pclk_state, sampled, accepted, push_ret, consumer, locals>>

\* bt656_pclk_isr_optimized entered although the interrupt has been detached
\* (an edge latched before detachInterrupt, served after it)
LateIsr ==
    /\ nops < MaxLateIsr
    /\ ~interface.interrupt_enabled \/ ~g_interface
    /\ \E data \in SampleBytes :
         LET r == bt656_pclk_isr_optimized(g_interface, interface, data)
         IN /\ interface' = r.ifc
            /\ sampled' = IF r.pushed THEN Append(sampled, data) ELSE sampled
            /\ accepted' = IF r.ret THEN Append(accepted, data) ELSE accepted
            /\ push_ret' = IF r.pushed THEN r.ret ELSE push_ret
    /\ nops' = nops + 1
    /\ UNCHANGED <<g_interface, last_pclk_state, consumer, locals, decoder, fed,
                   role, events, base_stats>>

\* bt656_interface_read_data is not called on an interface that was torn down
ShutdownNext ==
    \/ Isr /\ UNCHANGED dvars
    \/ interface.data_buffer # NullBuffer /\ Drain /\ UNCHANGED dvars
    \/ Stop /\ UNCHANGED dvars
    \/ Deinit /\ UNCHANGED dvars
    \/ LateIsr

\* the capture queue stopped or torn down at any time
ShutdownSpec == Init /\ [][ShutdownNext]_vars

\* C37: once bt656_interface_stop or bt656_interface_deinit has returned (the
\* interface is then not running; after deinit it has no buffer and the ISR
\* pointer is cleared, and nothing starts it again), an ISR invocation changes
\* nothing: it writes neither the queue, the cursors, the full flag nor the
\* statistics, and it does not touch the freed data_buffer.
C37_IsrInertAfterShutdown ==
    [][/\ Stop => ~interface'.interrupt_enabled
       /\ Deinit => /\ ~interface'.interrupt_enabled
                    /\ ~g_interface'
                    /\ interface'.data_buffer = NullBuffer
       /\ ~interface.interrupt_enabled => ~interface'.interrupt_enabled
       /\ ~g_interface => ~g_interface'
       /\ LateIsr => /\ interface' = interface
                     /\ sampled' = sampled
                     /\ accepted' = accepted]_vars

\* bytes were captured, the interface was torn down, and an ISR invocation
\* was served afterwards
C37_Witness ==
    /\ nops >= 1
    /\ interface.data_buffer = NullBuffer
    /\ ~g_interface
    /\ interface.stats.interrupts_handled = 2
    /\ Len(accepted) = 2

\* C38: after every return of bt656_decoder_process_byte, for any input byte
\* and any reachable decoder state, the detector state is one of IDLE, FF,
\* FF00, FF0000 (never CONTROL_BYTE or ACTIVE_VIDEO) and the phase is one of
\* Y1, Cb, Y2, Cr; the call completes on every byte: from every such state it
\* returns a decoder of the same kind.
C38_StateAndPhaseAtRest ==
    /\ decoder.state \in {"IDLE", "FF", "FF00", "FF0000"}
    /\ decoder.phase \in {"Y1", "CB", "Y2", "CR"}
    /\ \A b \in AllBytes :
           LET r == bt656_decoder_process_byte(decoder, b)
           IN /\ r.d.state \in {"IDLE", "FF", "FF00", "FF0000"}
              /\ r.d.phase \in {"Y1", "CB", "Y2", "CR"}
              /\ DOMAIN r.d = DOMAIN decoder

\* FF 00 00 was fed: the marker is complete and the detector rests in FF0000
C38_Witness ==
    /\ fed = <<255, 0, 0>>
    /\ decoder.state = "FF0000"
    /\ role[3] = "marker"

\* the samples the stream fed so far holds, read off the history from byte k
\* on: a control byte opens a region when its sav bit is set and closes it
\* otherwise, and drops the bytes of an unfinished group; inside a region
\* every four bytes handled as video data give one sample, built from the
\* second (cb), third (y) and fourth (cr)
RECURSIVE RegionSamples(_, _, _)
RegionSamples(k, active, group) ==
    IF k > Len(fed) THEN <<>>
    ELSE IF role[k] = "control"
         THEN RegionSamples(k + 1, Bit(fed[k], BT656_SAV_BIT), <<>>)
         ELSE IF role[k] = "other" /\ active
              THEN IF Len(group) = 3
                   THEN <<[y |-> group[3], cb |-> group[2], cr |-> fed[k]]>>
                        \o RegionSamples(k + 1, active, <<>>)
                   ELSE RegionSamples(k + 1, active, Append(group, fed[k]))
              ELSE RegionSamples(k + 1, active, group)

\* the samples handed to the pixel callback, in order
Dispatched == [k \in 1 .. Len(OfKind(events, "pixel")) |-> OfKind(events, "pixel")[k].px]

\* C39: every dispatched sample is built from one active-video region only:
\* cb, y and cr are the 2nd, 3rd and 4th of four consecutive bytes processed
\* as video data after the most recent control byte with sav = 1, no control
\* byte handled between them; a group cut off by a control byte is never
\* completed with bytes of a later region.
C39_SampleFromOneRegion ==
    /\ decoder.stats.pixels_received = Len(RegionSamples(1, FALSE, <<>>))
    /\ decoder.pixel_callback # NoHandler =>
           Dispatched = RegionSamples(1, FALSE, <<>>)

\* FF 00 00 08 twice, then 01 00 01 01: the FF and 00 of the second reference
\* began a group that its control byte cut off; the sample comes from the
\* four bytes after it
C39_Witness ==
    /\ fed = Reference(8) \o Reference(8) \o <<1, 0, 1, 1>>
    /\ decoder.pixel_callback # NoHandler
    /\ Len(Dispatched) = 1
    /\ Dispatched[1] = [y |-> 1, cb |-> 0, cr |-> 1]

\* number of bt656_interface_poll_data calls that get past the early return
\* (capturing calls), counted in nops
MaxPolls == 4

PollCall ==
    /\ nops < MaxPolls
    /\ PollData
    /\ nops' = IF interface.interrupt_enabled THEN nops ELSE nops + 1
    /\ UNCHANGED <<decoder, fed, role, events, base_stats>>

PollNext ==
    \/ Isr /\ UNCHANGED dvars
    \/ PollCall
    \/ Drain /\ UNCHANGED dvars
    \/ Stop /\ UNCHANGED dvars

\* the capture queue fed by the ISR until the interface is stopped and by
\* polling afterwards
PollSpec == Init /\ [][PollNext]_vars

\* the step offers a byte to the queue
Pushes == Len(sampled') > Len(sampled)

\* C40 as stated: bt656_interface_poll_data pushes nothing while
\* interrupt_enabled is true; when it captures it pushes at most one byte per
\* call and only on a low-to-high transition of the sampled PCLK level
\* between two consecutive capturing calls (so not on the first one).
C40_PollOnEdgeBetweenCalls ==
    [][PollCall =>
          /\ interface.interrupt_enabled => UNCHANGED <<interface, sampled, accepted>>
          /\ Len(sampled') <= Len(sampled) + 1
          /\ Pushes => /\ nops >= 1
                       /\ ~last_pclk_state
                       /\ last_pclk_state']_vars

\* C40, amended: the same, the level before the first capturing call counting
\* as low: the first capturing call pushes when it samples PCLK high.
C40_PollOnEdge ==
    [][/\ PollCall =>
            /\ interface.interrupt_enabled => UNCHANGED <<interface, sampled, accepted>>
            /\ Len(sampled') <= Len(sampled) + 1
            /\ Pushes <=> (~interface.interrupt_enabled /\ ~last_pclk_state
                           /\ last_pclk_state')
       /\ (Isr /\ UNCHANGED dvars) => interface.interrupt_enabled]_vars

\* polling mode since init: three capturing calls sampled high, low, high and
\* pushed twice
C40_Witness ==
    /\ ~interface.config.enable_interrupts
    /\ nops = 3
    /\ Len(sampled) = 2
    /\ last_pclk_state

====
